---- MODULE Spec2Model ----
(***************************************************************************)
(* Verification model of the mutual-fund advisor core:                     *)
(*   - the async_cache decorator (mfapi_service.py) wrapped around the     *)
(*     two MFAPIRepository lookups get_all_funds and get_fund;             *)
(*   - the five-node FundAdvisorAgent pipeline (fund_agent.py, nodes.py).  *)
(* SpecCache explores concurrent calls to the cached lookups; SpecPipe     *)
(* explores one execution of the pipeline.                                 *)
(***************************************************************************)
EXTENDS Integers, Sequences, FiniteSets, TLC

(***************************************************************************)
(* Bounds of the exploration.                                              *)
(***************************************************************************)
NumTasks == 2
NumCodes == 3
MaxTime == 2
MaxCalls == 3

\* async_cache parameters (settings.cache_ttl, settings.cache_max_size),
\* scaled down so that expiry and eviction happen within the bounds.
ttl == 1
max_items == 2

Tasks == 1..NumTasks
Codes == 1..NumCodes

VARIABLES
    \* ---- result cache ----
    func,           \* the decorated function this cache instance belongs to
    enable_cache,   \* settings.enable_cache
    cache,          \* the dict, as entries in insertion order
    cache_info,     \* [hits, misses]
    now,            \* time.time()
    calls,          \* per task: the wrapper invocation it is in
    funcCalls,      \* invocations of the wrapped function so far
    raisedKeys,     \* keys whose last finished call raised, no call begun since
    ev,             \* the last step taken: [op, task, key, kind, result, evicted]
    \* ---- one execution of the pipeline ----
    pc,             \* the graph node to run next, END, or done
    state,          \* the state dict handed from node to node
    trace,          \* the nodes that have run to their return, in order
    llm_calls,      \* the generate_response calls made so far
    requests,       \* the calls of the fund service made so far
    reply,          \* what process_query has handed to its caller
    \* ---- one streamed execution ----
    stream,         \* [phase, failed]: where the streaming generators stand
    chunks,         \* the frames delivered to the consumer so far
    \* ---- one call of a service function ----
    svc,            \* [fn, args, returned, result]
    \* ---- concurrent executions of the pipeline ----
    execs,          \* per execution: where it stands and the state dict it owns
    heap,           \* the list objects that hold a chat history
    caches,         \* per decorated function: its dict, entries in insertion order
    turn            \* [e, n]: the execution the event loop ran last, and the runs so far

cacheVars == <<func, enable_cache, cache, cache_info, now, calls, funcCalls, raisedKeys, ev>>

pipeVars == <<pc, state, trace, llm_calls, requests, reply>>

streamVars == <<stream, chunks>>

svcVars == <<svc>>

execVars == <<execs, heap, caches, turn>>

vars == <<func, enable_cache, cache, cache_info, now, calls, funcCalls, raisedKeys, ev,
          pc, state, trace, llm_calls, requests, reply, stream, chunks, svc,
          execs, heap, caches, turn>>

\* No pipeline execution is under way.
PipeIdle ==
    /\ pc = "idle"
    /\ state = [keys |-> {}]
    /\ trace = <<>>
    /\ llm_calls = <<>>
    /\ requests = <<>>
    /\ reply = [status |-> "none", value |-> <<>>]

\* No streamed execution is under way.
StreamIdle ==
    /\ stream = [phase |-> "off", failed |-> FALSE, query |-> <<>>, chat_history |-> <<>>]
    /\ chunks = <<>>

\* No service function is being called on its own.
SvcIdle == svc = [fn |-> "none", args |-> <<>>, returned |-> FALSE, result |-> <<>>]

\* No concurrent executions are under way.
ExecIdle ==
    /\ execs = <<>>
    /\ heap = <<>>
    /\ caches = <<>>
    /\ turn = [e |-> 0, n |-> 0]

(***************************************************************************)
(* Values.                                                                 *)
(***************************************************************************)
\* Every value handed around by the wrapper is a record [status, ver]: a
\* fetched payload carries the number of the invocation that fetched it.
None == [status |-> "None", ver |-> 0]
EmptyList == [status |-> "[]", ver |-> 0]
Exception(name) == [status |-> name, ver |-> 0]

\* The two decorated methods; each decoration has a cache and counters of
\* its own.
Funcs == {"get_all_funds", "get_fund"}

\* Positional arguments after self of each cached method.
ArgsOf(f) == IF f = "get_fund" THEN {<<c>> : c \in Codes} ELSE {<<>>}

\* Outcomes of the awaited request inside the wrapped function.
Outcomes == {"ok", "HTTPError", "Cancelled"}

(***************************************************************************)
(* MFAPIRepository.get_all_funds / get_fund: the wrapped functions.        *)
(* An httpx.HTTPError is re-raised by _make_request and swallowed by the   *)
(* except Exception clause, which returns [] or None.  A cancellation of   *)
(* the awaiting task is not an Exception and propagates.                   *)
(***************************************************************************)
_make_request(outcome, ver) ==
    IF outcome = "ok" THEN [raised |-> FALSE, value |-> [status |-> "SUCCESS", ver |-> ver]]
    ELSE [raised |-> TRUE, value |-> Exception(outcome)]

get_all_funds(outcome, ver) ==
    LET r == _make_request(outcome, ver) IN
    IF r.raised /\ r.value.status = "HTTPError"
    THEN [raised |-> FALSE, value |-> EmptyList]
    ELSE r

get_fund(outcome, ver) ==
    LET r == _make_request(outcome, ver) IN
    IF r.raised /\ r.value.status = "HTTPError"
    THEN [raised |-> FALSE, value |-> None]
    ELSE r

WrappedFunc(f, outcome, ver) ==
    IF f = "get_fund" THEN get_fund(outcome, ver) ELSE get_all_funds(outcome, ver)

(***************************************************************************)
(* async_cache.wrapper, piece by piece.                                    *)
(***************************************************************************)
\* cache_key = f"{func.__name__}:{':'.join(key_parts)}", key_parts = str(self), str(args)...
CacheKey(f, args) == <<f, "self">> \o args

KeyIndex(c, key) ==
    IF \E i \in 1..Len(c) : c[i].key = key
    THEN CHOOSE i \in 1..Len(c) : c[i].key = key
    ELSE 0

\* Mutant: the expiry comparison the wrong way round.
CacheLookupHitFlipped(c, key, t) ==
    /\ KeyIndex(c, key) # 0
    /\ t > c[KeyIndex(c, key)].expiry

\* Mutant: an entry still counts as fresh at its expiry instant.
CacheLookupHitInclusive(c, key, t) ==
    /\ KeyIndex(c, key) # 0
    /\ t <= c[KeyIndex(c, key)].expiry

\* if cache_key in cache: result, expiry = cache[cache_key]; if now < expiry
CacheLookupHit(c, key, t) ==
    /\ KeyIndex(c, key) # 0
    /\ t < c[KeyIndex(c, key)].expiry

\* Mutant: evict the entry inserted first instead of the soonest to expire.
OldestIndexFirstInserted(c) == 1

\* min(cache.items(), key=lambda x: x[1][1])[0]: the first entry, in dict
\* order, among those of minimal expiry.
OldestIndex(c) ==
    CHOOSE i \in 1..Len(c) :
        /\ \A j \in 1..Len(c) : c[i].expiry <= c[j].expiry
        /\ \A j \in 1..(i - 1) : c[j].expiry > c[i].expiry

RemoveAt(c, i) == SubSeq(c, 1, i - 1) \o SubSeq(c, i + 1, Len(c))

\* if len(cache) >= max_items: del cache[oldest_key]  -- the entries deleted
EvictedBy(c) ==
    IF Len(c) >= max_items THEN <<c[OldestIndex(c)]>> ELSE <<>>

\* Mutant: evict only once the dict is already over max_items.
EvictWhenOver(c) ==
    IF Len(c) > max_items THEN RemoveAt(c, OldestIndex(c)) ELSE c

\* if len(cache) >= max_items: del cache[oldest_key]  -- the dict afterwards
Evict(c) ==
    IF Len(c) >= max_items THEN RemoveAt(c, OldestIndex(c)) ELSE c

\* Mutant: a store never overwrites the entry a key already has.
StoreKeepsFirst(c, key, result, expiry) ==
    IF KeyIndex(c, key) # 0
    THEN c
    ELSE Append(c, [key |-> key, value |-> result, expiry |-> expiry])

\* cache[cache_key] = (result, now + ttl): an existing key keeps its place
Store(c, key, result, expiry) ==
    LET e == [key |-> key, value |-> result, expiry |-> expiry] IN
    IF KeyIndex(c, key) # 0
    THEN [c EXCEPT ![KeyIndex(c, key)] = e]
    ELSE Append(c, e)

\* A task that is not inside the wrapper.
Idle == [st |-> "idle", key |-> <<>>, now |-> 0, ver |-> 0, cached |-> FALSE]

\* What the last step did: op is begin, end, clear or tick; kind tells how a
\* begin went on (hit, miss, bypass) and how an end left the wrapper
\* (returned, raised); result is the value or exception handed to the caller.
Event(op, t, key, kind, result, ev_evicted) ==
    [op |-> op, task |-> t, key |-> key, kind |-> kind, result |-> result,
     evicted |-> ev_evicted]

InitCache ==
    /\ func \in Funcs
    /\ enable_cache \in BOOLEAN
    /\ cache = <<>>
    /\ cache_info = [hits |-> 0, misses |-> 0]
    /\ now = 0
    /\ calls = [t \in Tasks |-> Idle]
    /\ funcCalls = 0
    /\ raisedKeys = {}
    /\ ev = Event("init", 0, <<>>, "-", None, <<>>)
    /\ PipeIdle
    /\ StreamIdle
    /\ SvcIdle
    /\ ExecIdle

\* wrapper, lines 30-49: up to the await of the wrapped function.
CallBegin(t, args) ==
    /\ calls[t].st = "idle"
    /\ funcCalls + cache_info.hits < MaxCalls
    /\ UNCHANGED <<pipeVars, streamVars, svcVars, execVars>>
    /\ UNCHANGED <<func, enable_cache, cache, now>>
    /\ raisedKeys' = raisedKeys \ {CacheKey(func, args)}
    /\ LET key == CacheKey(func, args) IN
       IF ~enable_cache
       THEN /\ calls' = [calls EXCEPT ![t] = [st |-> "awaiting", key |-> key, now |-> 0,
                                              ver |-> funcCalls + 1, cached |-> FALSE]]
            /\ funcCalls' = funcCalls + 1
            /\ ev' = Event("begin", t, key, "bypass", None, <<>>)
            /\ UNCHANGED cache_info
       ELSE IF CacheLookupHit(cache, key, now)
            THEN /\ cache_info' = [cache_info EXCEPT !.hits = @ + 1]
                 /\ ev' = Event("begin", t, key, "hit", cache[KeyIndex(cache, key)].value, <<>>)
                 /\ UNCHANGED <<calls, funcCalls>>
            ELSE /\ cache_info' = [cache_info EXCEPT !.misses = @ + 1]
                 /\ calls' = [calls EXCEPT ![t] = [st |-> "awaiting", key |-> key, now |-> now,
                                                   ver |-> funcCalls + 1, cached |-> TRUE]]
                 /\ funcCalls' = funcCalls + 1
                 /\ ev' = Event("begin", t, key, "miss", None, <<>>)

\* Mutant: an exception of the wrapped function is stored as a None result.
WrapperAfterAwaitCachesFailure(c, call, r) ==
    IF r.raised
    THEN [cache |-> Store(Evict(c), call.key, None, call.now + ttl),
          kind |-> "raised", result |-> r.value, evicted |-> EvictedBy(c)]
    ELSE [cache |-> Store(Evict(c), call.key, r.value, call.now + ttl),
          kind |-> "returned", result |-> r.value, evicted |-> EvictedBy(c)]

\* Mutant: the expiry is computed from the time at which the function returns.
WrapperAfterAwaitExpiryFromEnd(c, call, r) ==
    IF r.raised
    THEN [cache |-> c, kind |-> "raised", result |-> r.value, evicted |-> <<>>]
    ELSE [cache |-> Store(Evict(c), call.key, r.value, now + ttl),
          kind |-> "returned", result |-> r.value, evicted |-> EvictedBy(c)]

\* wrapper, lines 49-58: what follows the await of the wrapped function.  An
\* exception leaves the wrapper at line 49; a result is stored after the
\* size check and the eviction, with the expiry computed from the time read
\* at line 40.
WrapperAfterAwait(c, call, r) ==
    IF r.raised
    THEN [cache |-> c, kind |-> "raised", result |-> r.value, evicted |-> <<>>]
    ELSE [cache |-> Store(Evict(c), call.key, r.value, call.now + ttl),
          kind |-> "returned", result |-> r.value, evicted |-> EvictedBy(c)]

\* a wrapper that stores the result of a call made with caching disabled
WrapperBypassStores(c, call, r) ==
    [cache |-> IF r.raised THEN c ELSE Store(Evict(c), call.key, r.value, call.now + ttl),
     kind |-> IF r.raised THEN "raised" ELSE "returned",
     result |-> r.value, evicted |-> <<>>]

\* wrapper, line 32: with caching disabled the call goes straight through.
WrapperBypass(c, call, r) ==
    [cache |-> c, kind |-> IF r.raised THEN "raised" ELSE "returned",
     result |-> r.value, evicted |-> <<>>]

\* The awaited wrapped function completes and the wrapper runs to its end.
CallEnd(t, outcome) ==
    /\ calls[t].st = "awaiting"
    /\ UNCHANGED <<pipeVars, streamVars, svcVars, execVars>>
    /\ UNCHANGED <<func, enable_cache, cache_info, now, funcCalls>>
    /\ calls' = [calls EXCEPT ![t] = Idle]
    /\ LET r == WrappedFunc(func, outcome, calls[t].ver)
           w == IF calls[t].cached
                THEN WrapperAfterAwait(cache, calls[t], r)
                ELSE WrapperBypass(cache, calls[t], r)
       IN  /\ cache' = w.cache
           /\ ev' = Event("end", t, calls[t].key, w.kind, w.result, w.evicted)
           /\ raisedKeys' = IF w.kind = "raised"
                            THEN raisedKeys \cup {calls[t].key}
                            ELSE raisedKeys

\* Mutant: clearing the map also resets the counters.
CacheClearResetsInfo ==
    /\ cache # <<>>
    /\ cache' = <<>>
    /\ cache_info' = [hits |-> 0, misses |-> 0]
    /\ ev' = Event("clear", 0, <<>>, "-", None, <<>>)
    /\ UNCHANGED <<func, enable_cache, now, calls, funcCalls, raisedKeys>>
    /\ UNCHANGED <<pipeVars, streamVars, svcVars, execVars>>

\* wrapper.cache_clear
CacheClear ==
    /\ cache # <<>>
    /\ cache' = <<>>
    /\ ev' = Event("clear", 0, <<>>, "-", None, <<>>)
    /\ UNCHANGED <<func, enable_cache, cache_info, now, calls, funcCalls, raisedKeys>>
    /\ UNCHANGED <<pipeVars, streamVars, svcVars, execVars>>

\* time.time() advances
Tick ==
    /\ now < MaxTime
    /\ now' = now + 1
    /\ ev' = Event("tick", 0, <<>>, "-", None, <<>>)
    /\ UNCHANGED <<func, enable_cache, cache, cache_info, calls, funcCalls, raisedKeys>>
    /\ UNCHANGED <<pipeVars, streamVars, svcVars, execVars>>

NextCache ==
    \/ \E t \in Tasks : \E args \in ArgsOf(func) : CallBegin(t, args)
    \/ \E t \in Tasks, outcome \in Outcomes : CallEnd(t, outcome)
    \/ CacheClear
    \/ Tick

SpecCache == InitCache /\ [][NextCache]_vars

\* settings.enable_cache is assigned while the process runs; the wrapper reads
\* it anew at line 31 of every call.
SetEnableCache(v) ==
    /\ enable_cache # v
    /\ enable_cache' = v
    /\ ev' = Event("setting", 0, <<>>, "-", None, <<>>)
    /\ UNCHANGED <<func, cache, cache_info, now, calls, funcCalls, raisedKeys>>
    /\ UNCHANGED <<pipeVars, streamVars, svcVars, execVars>>

NextCacheSetting ==
    \/ \E t \in Tasks : \E args \in ArgsOf(func) : CallBegin(t, args)
    \/ \E t \in Tasks, outcome \in Outcomes : CallEnd(t, outcome)
    \/ CacheClear
    \/ Tick
    \/ \E v \in BOOLEAN : SetEnableCache(v)

SpecCacheSetting == InitCache /\ [][NextCacheSetting]_vars

(***************************************************************************)
(* Text.  A Python str is the sequence of its characters; the operators    *)
(* below are the str methods and regular expressions the code uses.        *)
(***************************************************************************)
LowerChar(ch) ==
    CASE ch = "A" -> "a" [] ch = "B" -> "b" [] ch = "C" -> "c" [] ch = "D" -> "d" [] ch = "E" -> "e"
      [] ch = "F" -> "f" [] ch = "G" -> "g" [] ch = "H" -> "h" [] ch = "I" -> "i" [] ch = "J" -> "j"
      [] ch = "K" -> "k" [] ch = "L" -> "l" [] ch = "M" -> "m" [] ch = "N" -> "n" [] ch = "O" -> "o"
      [] ch = "P" -> "p" [] ch = "Q" -> "q" [] ch = "R" -> "r" [] ch = "S" -> "s" [] ch = "T" -> "t"
      [] ch = "U" -> "u" [] ch = "V" -> "v" [] ch = "W" -> "w" [] ch = "X" -> "x" [] ch = "Y" -> "y"
      [] ch = "Z" -> "z"
      [] OTHER -> ch

\* str.lower()
Lower(s) == [i \in 1..Len(s) |-> LowerChar(s[i])]

IsSpace(ch) == ch \in {" ", "\n", "\t", "\r"}

StartsAt(s, sub, i) ==
    /\ i + Len(sub) - 1 <= Len(s)
    /\ \A j \in 1..Len(sub) : s[i + j - 1] = sub[j]

\* sub in s
Contains(s, sub) == \E i \in 1..(Len(s) - Len(sub) + 1) : StartsAt(s, sub, i)

\* The least index >= from at which s holds ch, or 0.
Find(s, ch, from) ==
    IF \E i \in from..Len(s) : s[i] = ch
    THEN CHOOSE i \in from..Len(s) : s[i] = ch /\ \A j \in from..(i - 1) : s[j] # ch
    ELSE 0

RECURSIVE LStrip(_)
LStrip(s) == IF s # <<>> /\ IsSpace(Head(s)) THEN LStrip(Tail(s)) ELSE s

RECURSIVE RStrip(_)
RStrip(s) == IF s # <<>> /\ IsSpace(s[Len(s)]) THEN RStrip(SubSeq(s, 1, Len(s) - 1)) ELSE s

\* str.strip()
Strip(s) == RStrip(LStrip(s))

\* str.split(sep) for a one-character separator
RECURSIVE SplitOn(_, _)
SplitOn(s, sep) ==
    LET i == Find(s, sep, 1) IN
    IF i = 0 THEN <<s>>
    ELSE <<SubSeq(s, 1, i - 1)>> \o SplitOn(SubSeq(s, i + 1, Len(s)), sep)

\* str.split(sep, 1)
SplitOnce(s, sep) ==
    LET i == Find(s, sep, 1) IN
    IF i = 0 THEN <<s>>
    ELSE <<SubSeq(s, 1, i - 1), SubSeq(s, i + 1, Len(s))>>

\* The length of the leading run of non-whitespace characters.
RECURSIVE WordLen(_)
WordLen(s) == IF s = <<>> \/ IsSpace(Head(s)) THEN 0 ELSE 1 + WordLen(Tail(s))

\* str.split()
RECURSIVE SplitWS(_)
SplitWS(s) ==
    LET t == LStrip(s) IN
    IF t = <<>> THEN <<>>
    ELSE <<SubSeq(t, 1, WordLen(t))>> \o SplitWS(SubSeq(t, WordLen(t) + 1, Len(t)))

\* [Strip(x) for x in xs]
StripAll(xs) == [i \in 1..Len(xs) |-> Strip(xs[i])]

\* [x for x in xs if x and x.strip()]
RECURSIVE NonBlank(_)
NonBlank(xs) ==
    IF xs = <<>> THEN <<>>
    ELSE IF Head(xs) # <<>> /\ Strip(Head(xs)) # <<>>
         THEN <<Head(xs)>> \o NonBlank(Tail(xs))
         ELSE NonBlank(Tail(xs))

\* re.findall(q + "([^" + q + "]+)" + q, s) for a quote character q
RECURSIVE FindAllQuoted(_, _)
FindAllQuoted(s, q) ==
    LET p == Find(s, q, 1)
        e == IF p = 0 THEN 0 ELSE Find(s, q, p + 1)
    IN  IF p = 0 \/ e = 0 THEN <<>>
        ELSE IF e = p + 1 THEN FindAllQuoted(SubSeq(s, p + 1, Len(s)), q)
        ELSE <<SubSeq(s, p + 1, e - 1)>> \o FindAllQuoted(SubSeq(s, e + 1, Len(s)), q)

\* re.search(r'\[(.+?)\]', s, re.DOTALL): the group of the leftmost match as
\* <<group>>, or <<>> when there is no match.
SearchBracketed(s) ==
    LET p == Find(s, "[", 1)
        e == IF p = 0 THEN 0 ELSE Find(s, "]", p + 2)
    IN  IF p = 0 THEN <<>>
        ELSE IF e # 0 THEN <<SubSeq(s, p + 1, e - 1)>>
        ELSE <<>>

(***************************************************************************)
(* QueryAnalyzer (nodes.py).                                               *)
(***************************************************************************)
\* the name a line yields: <<name>> or <<>>
FundNameOfLine(line) ==
    LET excluded == { <<"n", "o", "n", "e">>,
                      <<"n", "o", "t", " ", "m", "e", "n", "t", "i", "o", "n", "e", "d">>,
                      <<"n", "o", "t", " ", "s", "p", "e", "c", "i", "f", "i", "e", "d">> }
    IN  IF Contains(Lower(line), <<"f", "u", "n", "d">>) /\ Find(line, ":", 1) # 0
        THEN LET name_part == Strip(SplitOnce(line, ":")[2]) IN
             IF name_part # <<>> /\ Lower(name_part) \notin excluded
             THEN <<name_part>> ELSE <<>>
        ELSE <<>>

RECURSIVE FundNamesOfLines(_)
FundNamesOfLines(lines) ==
    IF lines = <<>> THEN <<>>
    ELSE FundNameOfLine(Head(lines)) \o FundNamesOfLines(Tail(lines))

extract_fund_names(analysis) == FundNamesOfLines(SplitOn(analysis, "\n"))

parse_search_terms(search_terms_text) ==
    LET list_match == SearchBracketed(search_terms_text) IN
    IF list_match # <<>>
    THEN LET terms_text == list_match[1]
             dq == FindAllQuoted(terms_text, "\"")
             sq == FindAllQuoted(terms_text, "'")
             terms == IF dq # <<>> THEN dq
                      ELSE IF sq # <<>> THEN sq
                      ELSE StripAll(SplitOn(terms_text, ","))
         IN  NonBlank(terms)
    ELSE IF Find(search_terms_text, "\n", 1) # 0
         THEN NonBlank(StripAll(SplitOn(search_terms_text, "\n")))
         ELSE NonBlank(StripAll(SplitOn(search_terms_text, ",")))

comparison_keywords ==
    <<
      <<"c", "o", "m", "p", "a", "r", "e">>,
      <<"c", "o", "m", "p", "a", "r", "i", "s", "o", "n">>,
      <<"v", "e", "r", "s", "u", "s">>,
      <<"v", "s">>,
      <<"v", "s", ".">>,
      <<"b", "e", "t", "t", "e", "r">>,
      <<"d", "i", "f", "f", "e", "r", "e", "n", "c", "e">>,
      <<"d", "i", "f", "f", "e", "r", "e", "n", "c", "e", "s">>,
      <<"w", "h", "i", "c", "h", " ", "i", "s", " ", "b", "e", "t", "t", "e", "r">>,
      <<"c", "o", "n", "t", "r", "a", "s", "t">>,
      <<"a", "g", "a", "i", "n", "s", "t">> >>

is_comparison_query(query) ==
    \E k \in 1..Len(comparison_keywords) : Contains(Lower(query), comparison_keywords[k])

(***************************************************************************)
(* The fund data behind the MFAPI endpoints, as far as the code reads it.  *)
(***************************************************************************)
\* GET "": the listing of all funds
AllFunds ==
    <<
      [schemeCode |-> 101, schemeName |-> <<"H", "D", "F", "C", " ", "T", "o", "p", " ", "1", "0", "0", " ", "F", "u", "n", "d", "-", "G", "r", "o", "w", "t", "h", " ", "O", "p", "t", "i", "o", "n">>],
      [schemeCode |-> 102, schemeName |-> <<"H", "D", "F", "C", " ", "E", "q", "u", "i", "t", "y", " ", "F", "u", "n", "d">>],
      [schemeCode |-> 103, schemeName |-> <<"S", "B", "I", " ", "B", "o", "n", "d", " ", "F", "u", "n", "d">>],
      [schemeCode |-> 104, schemeName |-> <<"S", "B", "I", " ", "T", "o", "p", " ", "F", "u", "n", "d">>],
      [schemeCode |-> 105, schemeName |-> <<"A", "x", "i", "s", " ", "L", "i", "q", "u", "i", "d", " ", "F", "u", "n", "d">>] >>

\* GET "" at a later time: scheme 101 goes by another name
RenamedFunds ==
    [AllFunds EXCEPT ![1].schemeName =
        <<"H", "D", "F", "C", " ", "T", "o", "p", " ", "1", "0", "0", " ", "F", "u", "n", "d",
          " ", "-", " ", "R", "e", "g", "u", "l", "a", "r">>]

SchemeCodes == {AllFunds[i].schemeCode : i \in 1..Len(AllFunds)}

NavPoint(date, nav) == [date |-> date, nav |-> nav]

\* the length of the valuation history of scheme 105
HistoryLen == 367

\* the i-th newest valuation of scheme 105: the days 28 down to 1 of April
\* 2023, then of each month before it
LongPoint(i) ==
    LET back == (i - 1) \div 28
        day == 28 - ((i - 1) % 28)
        month == ((3 - back) % 12) + 1
        year == 2023 + ((3 - back) \div 12)
        digits == <<"0", "1", "2", "3", "4", "5", "6", "7", "8", "9">>
        two(n) == <<digits[(n \div 10) + 1], digits[(n % 10) + 1]>>
    IN  NavPoint(two(day) \o <<"-">> \o two(month) \o <<"-">>
                 \o two(year \div 100) \o two(year % 100), 500000 + i)

\* GET "/{scheme_code}": meta, valuation history (most recent first, values in
\* thousandths) and status.  Scheme 103 has no valuations, scheme 104 is
\* answered without SUCCESS, scheme 105 has more than a year of valuations.
FundRecord(code) ==
    LET i == CHOOSE k \in 1..Len(AllFunds) : AllFunds[k].schemeCode = code IN
    [meta |-> [scheme_name |-> AllFunds[i].schemeName,
               fund_house |-> <<"M", "F">>,
               scheme_type |-> <<"O", "p", "e", "n", " ", "E", "n", "d", "e", "d">>,
               scheme_category |-> <<"S", "c", "h", "e", "m", "e">>],
     data |-> IF code = 103 THEN <<>>
              ELSE IF code = 105 THEN [k \in 1..HistoryLen |-> LongPoint(k)]
              ELSE <<NavPoint(<<"2", "1", "-", "0", "4", "-", "2", "0", "2", "3">>, 845123 + code),
                     NavPoint(<<"2", "1", "-", "0", "4", "-", "2", "0", "2", "2">>, 800000 + code)>>,
     status |-> IF code = 104 THEN <<"E", "R", "R", "O", "R">>
                ELSE <<"S", "U", "C", "C", "E", "S", "S">>]

\* What the service reads out of the value a repository call returned: <<>>
\* where the value is None or empty.  A scheme code the provider does not
\* know is answered with an empty body.
ListingOf(value) ==
    IF value.status = "SUCCESS"
    THEN IF value.ver = 1 THEN RenamedFunds ELSE AllFunds
    ELSE <<>>
FundDataOf(value, code) ==
    IF value.status = "SUCCESS" /\ code \in SchemeCodes THEN <<FundRecord(code)>> ELSE <<>>

(***************************************************************************)
(* MutualFundService (mfapi_service.py).                                   *)
(***************************************************************************)
common_fund_houses ==
    <<
      <<"H", "D", "F", "C">>,
      <<"S", "B", "I">>,
      <<"I", "C", "I", "C", "I">>,
      <<"A", "x", "i", "s">>,
      <<"K", "o", "t", "a", "k">>,
      <<"A", "d", "i", "t", "y", "a", " ", "B", "i", "r", "l", "a">>,
      <<"N", "i", "p", "p", "o", "n">>,
      <<"D", "S", "P">>,
      <<"U", "T", "I">>,
      <<"I", "D", "F", "C">>,
      <<"F", "r", "a", "n", "k", "l", "i", "n">>,
      <<"T", "a", "t", "a">>,
      <<"M", "i", "r", "a", "e">>,
      <<"I", "n", "v", "e", "s", "c", "o">>,
      <<"C", "a", "n", "a", "r", "a">>,
      <<"L", "&", "T">>,
      <<"M", "o", "t", "i", "l", "a", "l">>,
      <<"P", "a", "r", "a", "g", " ", "P", "a", "r", "i", "k", "h">>,
      <<"E", "d", "e", "l", "w", "e", "i", "s", "s">> >>

_extract_fund_house(scheme_name) ==
    IF \E k \in 1..Len(common_fund_houses) : Contains(scheme_name, common_fund_houses[k])
    THEN common_fund_houses[CHOOSE k \in 1..Len(common_fund_houses) :
            /\ Contains(scheme_name, common_fund_houses[k])
            /\ \A j \in 1..(k - 1) : ~Contains(scheme_name, common_fund_houses[j])]
    ELSE <<>>

_categorize_fund(scheme_name) ==
    LET scheme_name_lower == Lower(scheme_name)
        equity == { <<"e", "q", "u", "i", "t", "y">>,
                   <<"l", "a", "r", "g", "e", " ", "c", "a", "p">>,
                   <<"m", "i", "d", " ", "c", "a", "p">>,
                   <<"s", "m", "a", "l", "l", " ", "c", "a", "p">>,
                   <<"f", "l", "e", "x", "i", " ", "c", "a", "p">> }
        debt == { <<"d", "e", "b", "t">>,
                 <<"b", "o", "n", "d">>,
                 <<"i", "n", "c", "o", "m", "e">>,
                 <<"l", "i", "q", "u", "i", "d">>,
                 <<"g", "i", "l", "t">> }
        hybrid == { <<"h", "y", "b", "r", "i", "d">>,
                   <<"b", "a", "l", "a", "n", "c", "e", "d">>,
                   <<"e", "q", "u", "i", "t", "y", " ", "s", "a", "v", "i", "n", "g", "s">> }
        solution == { <<"r", "e", "t", "i", "r", "e", "m", "e", "n", "t">>,
                     <<"c", "h", "i", "l", "d", "r", "e", "n">>,
                     <<"t", "a", "x", " ", "s", "a", "v", "e", "r">>,
                     <<"e", "l", "s", "s">> }
    IN  IF \E term \in equity : Contains(scheme_name_lower, term)
        THEN <<"E", "q", "u", "i", "t", "y">>
        ELSE IF \E term \in debt : Contains(scheme_name_lower, term)
        THEN <<"D", "e", "b", "t">>
        ELSE IF \E term \in hybrid : Contains(scheme_name_lower, term)
        THEN <<"H", "y", "b", "r", "i", "d">>
        ELSE IF \E term \in solution : Contains(scheme_name_lower, term)
        THEN <<"S", "o", "l", "u", "t", "i", "o", "n", " ", "O", "r", "i", "e", "n", "t", "e", "d">>
        ELSE <<"O", "t", "h", "e", "r">>

FundSummary(fund) ==
    [scheme_code |-> fund.schemeCode,
     scheme_name |-> fund.schemeName,
     fund_house |-> _extract_fund_house(fund.schemeName),
     category |-> _categorize_fund(fund.schemeName)]

\* the loop of search_funds over all_funds, with its break at the limit
RECURSIVE FilterFunds(_, _, _, _)
FilterFunds(funds, query_terms, limit, filtered_funds) ==
    IF funds = <<>> THEN filtered_funds
    ELSE LET fund == Head(funds)
             scheme_name == Lower(fund.schemeName)
         IN  IF \A k \in 1..Len(query_terms) : Contains(scheme_name, query_terms[k])
             THEN LET found == Append(filtered_funds, FundSummary(fund)) IN
                  IF Len(found) >= limit THEN found
                  ELSE FilterFunds(Tail(funds), query_terms, limit, found)
             ELSE FilterFunds(Tail(funds), query_terms, limit, filtered_funds)

\* MutualFundService.search_funds; all_funds is what repository.get_all_funds
\* returned
Service_search_funds(all_funds, query, limit) ==
    FilterFunds(ListingOf(all_funds), SplitWS(Lower(query)), limit, <<>>)

(***************************************************************************)
(* Dates: datetime.strptime(text, "%d-%m-%Y") and the difference of two    *)
(* dates in days.  A parsed date is its proleptic Gregorian ordinal.       *)
(***************************************************************************)
\* datetime.strptime(text, "%d-%m-%Y"): <<ordinal>>, or <<>> for ValueError.
\* %d takes one or two digits or a blank and a digit, %m one or two digits,
\* %Y exactly four; the day must exist.  The ordinal is date.toordinal().
strptime(text) ==
    LET digits == <<"0", "1", "2", "3", "4", "5", "6", "7", "8", "9">>
        AllDigits(t) == t # <<>> /\ \A i \in 1..Len(t) : \E k \in 1..10 : digits[k] = t[i]
        DigitValue(ch) == (CHOOSE k \in 1..10 : digits[k] = ch) - 1
        \* the number written by one, two or four digits
        NumberOf(ds) ==
            CASE Len(ds) = 1 -> DigitValue(ds[1])
              [] Len(ds) = 2 -> 10 * DigitValue(ds[1]) + DigitValue(ds[2])
              [] Len(ds) = 4 -> 1000 * DigitValue(ds[1]) + 100 * DigitValue(ds[2])
                                + 10 * DigitValue(ds[3]) + DigitValue(ds[4])
        Leap(y) == IF (y % 4 = 0 /\ y % 100 # 0) \/ y % 400 = 0 THEN 1 ELSE 0
        DaysInMonth(m, leap) == <<31, 28 + leap, 31, 30, 31, 30, 31, 31, 30, 31, 30, 31>>[m]
        DaysBeforeMonth(m, leap) ==
            <<0, 31, 59, 90, 120, 151, 181, 212, 243, 273, 304, 334>>[m]
            + (IF m > 2 THEN leap ELSE 0)
        DaysBeforeYear(y) ==
            (y - 1) * 365 + ((y - 1) \div 4) - ((y - 1) \div 100) + ((y - 1) \div 400)
        Date(y, m, d, leap) ==
            IF d >= 1 /\ d <= DaysInMonth(m, leap)
            THEN <<DaysBeforeYear(y) + DaysBeforeMonth(m, leap) + d>>
            ELSE <<>>
        InYear(y, m, d) == IF y >= 1 /\ m \in 1..12 THEN Date(y, m, d, Leap(y)) ELSE <<>>
        Fields(parts) ==
            IF /\ Len(parts) = 3
               /\ AllDigits(parts[1]) /\ Len(parts[1]) <= 2
               /\ AllDigits(parts[2]) /\ Len(parts[2]) <= 2
               /\ AllDigits(parts[3]) /\ Len(parts[3]) = 4
            THEN InYear(NumberOf(parts[3]), NumberOf(parts[2]), NumberOf(parts[1]))
            ELSE <<>>
        BlankDay(split) ==
            IF Len(split[1]) = 2 /\ split[1][1] = " "
            THEN [split EXCEPT ![1] = Tail(@)]
            ELSE split
    IN  Fields(BlankDay(SplitOn(text, "-")))

Abs(n) == IF n < 0 THEN 0 - n ELSE n

\* round(n * 10000 / d) for d > 0, halves to the even neighbour; the scaling
\* is done in two steps of 100 on the remainders to stay within 32 bits
RoundRatio(n, d) ==
    LET Nearest(q, r) ==
            IF 2 * r < d THEN q
            ELSE IF 2 * r > d THEN q + 1
            ELSE IF q % 2 = 0 THEN q ELSE q + 1
        Second(q, r) == Nearest(q * 100 + ((r * 100) \div d), (r * 100) % d)
        First(q, r) == Second(q * 100 + ((r * 100) \div d), (r * 100) % d)
    IN  First(n \div d, n % d)

(***************************************************************************)
(* MutualFundService._calculate_returns.  Valuations are in thousandths,   *)
(* returns in hundredths of a percent.                                     *)
(***************************************************************************)
periods ==
    << [key |-> "1M", days |-> 30], [key |-> "3M", days |-> 91], [key |-> "6M", days |-> 182],
       [key |-> "1Y", days |-> 365], [key |-> "3Y", days |-> 1095], [key |-> "5Y", days |-> 1825] >>

\* min_diff = timedelta(days=365)
min_diff_days == 365

\* the scan for the closest entry with no limit on its distance
ClosestEntryAnyDistance(nav_data, target_date) ==
    LET First(diff, near) ==
            IF near = {} THEN <<>>
            ELSE <<nav_data[CHOOSE i \in near :
                              \A j \in near : \/ diff[i] < diff[j]
                                              \/ diff[i] = diff[j] /\ i <= j].nav>>
        Near(diff) == First(diff, DOMAIN diff)
        Distances(entry_date) ==
            Near([i \in {k \in DOMAIN entry_date : entry_date[k] # <<>>} |->
                     Abs(entry_date[i][1] - target_date)])
    IN  Distances([i \in 1..Len(nav_data) |-> strptime(nav_data[i].date)])

\* Mutant: among entries at the same least distance the last one is taken.
ClosestEntryLatestTie(nav_data, target_date) ==
    LET First(diff, near) ==
            IF near = {} THEN <<>>
            ELSE <<nav_data[CHOOSE i \in near :
                              \A j \in near : \/ diff[i] < diff[j]
                                              \/ diff[i] = diff[j] /\ i >= j].nav>>
        Near(diff) == First(diff, {i \in DOMAIN diff : diff[i] < min_diff_days})
        Distances(entry_date) ==
            Near([i \in {k \in DOMAIN entry_date : entry_date[k] # <<>>} |->
                     Abs(entry_date[i][1] - target_date)])
    IN  Distances([i \in 1..Len(nav_data) |-> strptime(nav_data[i].date)])

\* lines 263-277: the valuation of the first entry, in input order, at the
\* least distance from the target date, that distance being under min_diff;
\* entries whose date does not parse are passed over.  <<>> stands for None.
ClosestEntry(nav_data, target_date) ==
    LET First(diff, near) ==
            IF near = {} THEN <<>>
            ELSE <<nav_data[CHOOSE i \in near :
                              \A j \in near : \/ diff[i] < diff[j]
                                              \/ diff[i] = diff[j] /\ i <= j].nav>>
        Near(diff) == First(diff, {i \in DOMAIN diff : diff[i] < min_diff_days})
        Distances(entry_date) ==
            Near([i \in {k \in DOMAIN entry_date : entry_date[k] # <<>>} |->
                     Abs(entry_date[i][1] - target_date)])
    IN  Distances([i \in 1..Len(nav_data) |-> strptime(nav_data[i].date)])

\* lines 279-282: the return over one period, <<>> if the period is left out
PeriodReturn(nav_data, latest_nav, latest_date, period) ==
    LET Return(closest_nav) ==
            IF closest_nav # <<>> /\ closest_nav[1] > 0
            THEN <<RoundRatio(latest_nav - closest_nav[1], closest_nav[1])>>
            ELSE <<>>
    IN  Return(ClosestEntry(nav_data, latest_date - period.days))

\* the dict returned: a function from the keys of the periods that got a
\* return to that return
_calculate_returns(nav_data) ==
    LET Dict(found) ==
            [key \in {periods[k].key : k \in {j \in DOMAIN found : found[j] # <<>>}} |->
                found[CHOOSE k \in DOMAIN found : periods[k].key = key][1]]
        Since(latest_date) ==
            IF latest_date = <<>> THEN <<>>
            ELSE Dict([k \in 1..Len(periods) |->
                          PeriodReturn(nav_data, nav_data[1].nav, latest_date[1], periods[k])])
    IN  IF Len(nav_data) < 2 THEN <<>> ELSE Since(strptime(nav_data[1].date))

\* nav_data_raw[:365]
nav_data_limit == 365

\* get_fund_details attaching the whole history
Service_get_fund_detailsUncapped(data, scheme_code, include_nav_data) ==
    LET d == FundDataOf(data, scheme_code) IN
    IF d # <<>> /\ d[1].status = <<"S", "U", "C", "C", "E", "S", "S">>
    THEN LET fund_data == d[1].meta
             nav_data_raw == d[1].data
             returns == _calculate_returns(nav_data_raw)
         IN  <<[scheme_code |-> scheme_code,
                scheme_name |-> fund_data.scheme_name,
                fund_house |-> fund_data.fund_house,
                scheme_type |-> fund_data.scheme_type,
                scheme_category |-> fund_data.scheme_category,
                scheme_nav |-> IF nav_data_raw # <<>> THEN <<nav_data_raw[1].nav>> ELSE <<>>,
                scheme_nav_date |-> IF nav_data_raw # <<>> THEN <<nav_data_raw[1].date>> ELSE <<>>,
                performance |-> returns,
                nav_data |-> IF include_nav_data /\ nav_data_raw # <<>>
                             THEN <<nav_data_raw>>
                             ELSE <<>>]>>
    ELSE <<>>

\* MutualFundService.get_fund_details; data is what repository.get_fund
\* returned.  The result is <<>> for None and <<detail>> otherwise, and so are
\* the optional fields of a detail; performance holds the returns that were
\* computed, by period.
Service_get_fund_details(data, scheme_code, include_nav_data) ==
    LET d == FundDataOf(data, scheme_code) IN
    IF d # <<>> /\ d[1].status = <<"S", "U", "C", "C", "E", "S", "S">>
    THEN LET fund_data == d[1].meta
             nav_data_raw == d[1].data
             returns == _calculate_returns(nav_data_raw)
         IN  <<[scheme_code |-> scheme_code,
                scheme_name |-> fund_data.scheme_name,
                fund_house |-> fund_data.fund_house,
                scheme_type |-> fund_data.scheme_type,
                scheme_category |-> fund_data.scheme_category,
                scheme_nav |-> IF nav_data_raw # <<>> THEN <<nav_data_raw[1].nav>> ELSE <<>>,
                scheme_nav_date |-> IF nav_data_raw # <<>> THEN <<nav_data_raw[1].date>> ELSE <<>>,
                performance |-> returns,
                nav_data |-> IF include_nav_data /\ nav_data_raw # <<>>
                             THEN <<SubSeq(nav_data_raw, 1, IF Len(nav_data_raw) < nav_data_limit
                                                            THEN Len(nav_data_raw)
                                                            ELSE nav_data_limit)>>
                             ELSE <<>>]>>
    ELSE <<>>

(***************************************************************************)
(* The fixed texts of nodes.py and fund_agent.py, and the texts drawn as   *)
(* inputs: queries, generated texts, exception messages.                   *)
(***************************************************************************)
\* the texts the nodes put into the history, the error record and the response
NodeMsg ==
    [Analyzing |->
      <<"I", "'", "m", " ", "a", "n", "a", "l", "y", "z", "i", "n", "g", " ", "y", "o", "u",
        "r", " ", "q", "u", "e", "r", "y", " ", "a", "b", "o", "u", "t", " ", "m", "u", "t",
        "u", "a", "l", " ", "f", "u", "n", "d", "s", ".">>,
     QueryAnalysisFailed |->
      <<"Q", "u", "e", "r", "y", " ", "a", "n", "a", "l", "y", "s", "i", "s", " ", "f", "a",
        "i", "l", "e", "d", ":", " ">>,
     FoundPrefix |-> <<"I", " ", "f", "o", "u", "n", "d", " ">>,
     FoundSuffix |->
      <<" ", "f", "u", "n", "d", "s", " ", "t", "h", "a", "t", " ", "m", "a", "t", "c", "h",
        " ", "y", "o", "u", "r", " ", "q", "u", "e", "r", "y", ".">>,
     FundSearchFailed |->
      <<"F", "u", "n", "d", " ", "s", "e", "a", "r", "c", "h", " ", "f", "a", "i", "l", "e",
        "d", ":", " ">>,
     NoRelevantFunds |->
      <<"I", " ", "c", "o", "u", "l", "d", "n", "'", "t", " ", "f", "i", "n", "d", " ", "a",
        "n", "y", " ", "r", "e", "l", "e", "v", "a", "n", "t", " ", "f", "u", "n", "d", "s",
        " ", "t", "o", " ", "a", "n", "a", "l", "y", "z", "e", ".">>,
     GatheredPrefix |->
      <<"I", "'", "v", "e", " ", "g", "a", "t", "h", "e", "r", "e", "d", " ", "d", "e", "t",
        "a", "i", "l", "e", "d", " ", "i", "n", "f", "o", "r", "m", "a", "t", "i", "o", "n",
        " ", "o", "n", " ">>,
     GatheredSuffix |-> <<" ", "f", "u", "n", "d", "s", ".">>,
     NoFundsResponse |->
      <<"I", " ", "c", "o", "u", "l", "d", "n", "'", "t", " ", "f", "i", "n", "d", " ", "a",
        "n", "y", " ", "m", "u", "t", "u", "a", "l", " ", "f", "u", "n", "d", "s", " ", "m",
        "a", "t", "c", "h", "i", "n", "g", " ", "y", "o", "u", "r", " ", "q", "u", "e", "r",
        "y", ".", " ", "C", "o", "u", "l", "d", " ", "y", "o", "u", " ", "p", "l", "e", "a",
        "s", "e", " ", "p", "r", "o", "v", "i", "d", "e", " ", "m", "o", "r", "e", " ", "s",
        "p", "e", "c", "i", "f", "i", "c", " ", "i", "n", "f", "o", "r", "m", "a", "t", "i",
        "o", "n", "?">>,
     NoFundsTurn |->
      <<"I", " ", "c", "o", "u", "l", "d", "n", "'", "t", " ", "f", "i", "n", "d", " ", "a",
        "n", "y", " ", "m", "u", "t", "u", "a", "l", " ", "f", "u", "n", "d", "s", " ", "m",
        "a", "t", "c", "h", "i", "n", "g", " ", "y", "o", "u", "r", " ", "q", "u", "e", "r",
        "y", ".">>,
     AnalyzedTurn |->
      <<"I", "'", "v", "e", " ", "a", "n", "a", "l", "y", "z", "e", "d", " ", "t", "h", "e",
        " ", "f", "u", "n", "d", " ", "d", "a", "t", "a", " ", "b", "a", "s", "e", "d", " ",
        "o", "n", " ", "y", "o", "u", "r", " ", "q", "u", "e", "r", "y", ".">>,
     FundAnalysisFailed |->
      <<"F", "u", "n", "d", " ", "a", "n", "a", "l", "y", "s", "i", "s", " ", "f", "a", "i",
        "l", "e", "d", ":", " ">>,
     TechnicalError |->
      <<"I", " ", "c", "o", "u", "l", "d", "n", "'", "t", " ", "a", "n", "a", "l", "y", "z",
        "e", " ", "t", "h", "e", " ", "f", "u", "n", "d", " ", "d", "a", "t", "a", " ", "d",
        "u", "e", " ", "t", "o", " ", "a", " ", "t", "e", "c", "h", "n", "i", "c", "a", "l",
        " ", "e", "r", "r", "o", "r", ".">>,
     CouldNotComplete |->
      <<"I", "'", "m", " ", "s", "o", "r", "r", "y", ",", " ", "I", " ", "c", "o", "u", "l",
        "d", "n", "'", "t", " ", "c", "o", "m", "p", "l", "e", "t", "e", " ", "t", "h", "e",
        " ", "a", "n", "a", "l", "y", "s", "i", "s", " ", "o", "f", " ", "m", "u", "t", "u",
        "a", "l", " ", "f", "u", "n", "d", "s", " ", "b", "a", "s", "e", "d", " ", "o", "n",
        " ", "y", "o", "u", "r", " ", "q", "u", "e", "r", "y", ".", " ", "P", "l", "e", "a",
        "s", "e", " ", "t", "r", "y", " ", "a", "g", "a", "i", "n", " ", "w", "i", "t", "h",
        " ", "m", "o", "r", "e", " ", "s", "p", "e", "c", "i", "f", "i", "c", " ", "d", "e",
        "t", "a", "i", "l", "s", " ", "o", "r", " ", "c", "h", "e", "c", "k", " ", "i", "f",
        " ", "t", "h", "e", " ", "f", "u", "n", "d", " ", "n", "a", "m", "e", "s", " ", "a",
        "r", "e", " ", "c", "o", "r", "r", "e", "c", "t", ".">>,
     CouldNotCompleteTurn |->
      <<"I", " ", "c", "o", "u", "l", "d", "n", "'", "t", " ", "c", "o", "m", "p", "l", "e",
        "t", "e", " ", "t", "h", "e", " ", "a", "n", "a", "l", "y", "s", "i", "s", " ", "o",
        "f", " ", "m", "u", "t", "u", "a", "l", " ", "f", "u", "n", "d", "s", ".">>,
     CouldNotGenerate |->
      <<"I", "'", "m", " ", "s", "o", "r", "r", "y", ",", " ", "I", " ", "c", "o", "u", "l",
        "d", "n", "'", "t", " ", "g", "e", "n", "e", "r", "a", "t", "e", " ", "a", " ", "r",
        "e", "s", "p", "o", "n", "s", "e", " ", "b", "a", "s", "e", "d", " ", "o", "n", " ",
        "y", "o", "u", "r", " ", "q", "u", "e", "r", "y", ".">>,
     HeresWhatIFound |->
      <<"H", "e", "r", "e", "'", "s", " ", "w", "h", "a", "t", " ", "I", " ", "f", "o", "u",
        "n", "d", " ", "a", "b", "o", "u", "t", " ", "t", "h", "e", " ", "m", "u", "t", "u",
        "a", "l", " ", "f", "u", "n", "d", "s", " ", "y", "o", "u", " ", "a", "s", "k", "e",
        "d", " ", "a", "b", "o", "u", "t", ".">>]
\* the texts process_query and process_query_stream answer with themselves
AgentMsg ==
    [NoResponse |->
      <<"I", " ", "c", "o", "u", "l", "d", "n", "'", "t", " ", "g", "e", "n", "e", "r", "a",
        "t", "e", " ", "a", " ", "r", "e", "s", "p", "o", "n", "s", "e", ".", " ", "P", "l",
        "e", "a", "s", "e", " ", "t", "r", "y", " ", "a", "g", "a", "i", "n", ".">>,
     ProcessingError |->
      <<"I", " ", "e", "n", "c", "o", "u", "n", "t", "e", "r", "e", "d", " ", "a", "n", " ",
        "e", "r", "r", "o", "r", " ", "w", "h", "i", "l", "e", " ", "p", "r", "o", "c", "e",
        "s", "s", "i", "n", "g", " ", "y", "o", "u", "r", " ", "q", "u", "e", "r", "y", ".",
        " ", "P", "l", "e", "a", "s", "e", " ", "t", "r", "y", " ", "a", "g", "a", "i", "n", ".">>,
     StreamError |->
      <<"I", " ", "e", "n", "c", "o", "u", "n", "t", "e", "r", "e", "d", " ", "a", "n", " ",
        "e", "r", "r", "o", "r", " ", "w", "h", "i", "l", "e", " ", "p", "r", "o", "c", "e",
        "s", "s", "i", "n", "g", " ", "y", "o", "u", "r", " ", "q", "u", "e", "r", "y", ".",
        " ", "P", "l", "e", "a", "s", "e", " ", "t", "r", "y", " ", "a", "g", "a", "i", "n", ".">>]

\* queries and an earlier turn, as a caller hands them in
Query ==
    [Compare |->
      <<"H", "D", "F", "C", " ", "V", "S", " ", "S", "B", "I", " ", "f", "u", "n", "d", "s">>,
     Single |-> <<"h", "d", "f", "c", " ", "t", "o", "p", " ", "f", "u", "n", "d">>,
     Better |-> <<"W", "h", "i", "c", "h", " ", "i", "s", " ", "b", "e", "t", "t", "e", "r", "?">>,
     Hello |-> <<"h", "e", "l", "l", "o">>]
\* texts handed back by generate_response: query analyses, search terms, a fund
\* analysis, a final answer
Generated ==
    [OneName |-> <<"F", "u", "n", "d", ":", " ", "H", "D", "F", "C", " ", "T", "o", "p">>,
     TwoNames |->
      <<"F", "u", "n", "d", " ", "1", ":", " ", "h", "d", "f", "c", "\n", "F", "u", "n", "d",
        " ", "2", ":", " ", "t", "o", "p">>,
     NoName |->
      <<"F", "u", "n", "d", " ", "n", "a", "m", "e", ":", " ", "N", "o", "n", "e", "\n", "I",
        "n", "t", "e", "n", "t", ":", " ", "g", "e", "n", "e", "r", "a", "l">>,
     Unknown |-> <<"F", "u", "n", "d", ":", " ", "x", "y", "z">>,
     TermsAll |-> <<"[", "\"", "f", "u", "n", "d", "\"", "]">>,
     TermsTwo |-> <<"s", "b", "i", ",", " ", "x", "y", "z">>,
     TermsBrackets |-> <<"[", "]">>,
     TermsEmpty |-> <<>>,
     Analysis |->
      <<"T", "h", "e", " ", "f", "u", "n", "d", " ", "d", "i", "d", " ", "w", "e", "l", "l", ".">>,
     Final |->
      <<"H", "e", "r", "e", " ", "i", "s", " ", "m", "y", " ", "a", "n", "s", "w", "e", "r", ".">>]

\* the message of an exception raised by generate_response
E_Provider ==
    <<"p", "r", "o", "v", "i", "d", "e", "r", " ", "u", "n", "a", "v", "a", "i", "l", "a",
      "b", "l", "e">>

\* the message of an exception raised by astream
E_Stream == <<"s", "t", "r", "e", "a", "m", " ", "b", "r", "o", "k", "e", "n">>

(***************************************************************************)
(* The pipeline state (the dict threaded through the graph nodes).  keys   *)
(* is the set of keys present; a field whose key is absent holds <<>>.     *)
(***************************************************************************)
HumanMessage(content) == [type |-> "human", content |-> content]
AIMessage(content) == [type |-> "ai", content |-> content]

\* process_query: state = {"query": query, "chat_history": chat_history or []};
\* the argument is <<>> for None and <<list>> for a list.
InitialState(query, chat_history) ==
    [keys |-> {"query", "chat_history"},
     query |-> query,
     chat_history |-> IF chat_history = <<>> THEN <<>> ELSE chat_history[1],
     query_analysis |-> <<>>,
     fund_names |-> <<>>,
     search_results |-> <<>>,
     fund_details |-> <<>>,
     fund_analysis |-> <<>>,
     response |-> <<>>,
     error |-> <<>>]

\* state.get(key, default)
Get(st, key, default) == IF key \in st.keys THEN st[key] ELSE default

\* {**state, key: value}
Set(st, key, value) == [st EXCEPT ![key] = value, !.keys = @ \cup {key}]

\* str(n) for a small natural number
Str(n) ==
    LET Digit(k) == <<"0", "1", "2", "3", "4", "5", "6", "7", "8", "9">>[k + 1]
    IN  IF n < 10 THEN <<Digit(n)>> ELSE <<Digit(n \div 10), Digit(n % 10)>>

(***************************************************************************)
(* generate_response (llm.py).  Temperatures are in tenths.                *)
(***************************************************************************)
default_temperature == 1
final_temperature == 3

\* limit=5 of the node's searches; the cap of 3 on the funds whose details
\* are fetched
search_limit == 5
detail_limit == 3

\* One call of generate_response: the prompt template, the temperature handed
\* to the provider (temperature is <<>> for None) and the fund payloads
\* formatted into the prompt.
generate_response(prompt, temperature, fund_data) ==
    [prompt |-> prompt,
     temperature |-> IF temperature # <<>> THEN temperature[1] ELSE default_temperature,
     fund_data |-> fund_data]

\* What a node hands back: the new state, or an exception that left the node,
\* and the generate_response calls it made.
Returned(st, sent) == [raised |-> FALSE, state |-> st, llm_calls |-> sent, requests |-> <<>>]
Raised(st, sent) == [raised |-> TRUE, state |-> st, llm_calls |-> sent, requests |-> <<>>]
\* ... with the outcome llm that its generate_response call, if it made one,
\* came to
Answered(r, llm) ==
    [r EXCEPT !.llm_calls = [i \in 1..Len(r.llm_calls) |->
                                [prompt |-> r.llm_calls[i].prompt,
                                 temperature |-> r.llm_calls[i].temperature,
                                 fund_data |-> r.llm_calls[i].fund_data,
                                 answer |-> llm]]]
\* ... and the calls of the fund service it made
Requesting(r, made) == [r EXCEPT !.requests = made]

(***************************************************************************)
(* The graph nodes (nodes.py).  llm is the outcome of the node's            *)
(* generate_response call: [ok, text], text being the generated text or the *)
(* message of the exception.                                               *)
(***************************************************************************)
\* analyze_query with its except clause taken away
analyze_queryUnguarded(st, llm) ==
    LET query == st.query
        chat_history == Get(st, "chat_history", <<>>)
        sent == <<generate_response("QUERY_ANALYSIS_PROMPT", <<>>, <<>>)>>
    IN  IF llm.ok
        THEN Returned(Set(Set(Set(st, "query_analysis", llm.text),
                              "fund_names", extract_fund_names(llm.text)),
                          "chat_history",
                          chat_history \o <<HumanMessage(query), AIMessage(NodeMsg.Analyzing)>>),
                      sent)
        ELSE Raised(st, sent)

analyze_query(st, llm) ==
    LET query == st.query
        chat_history == Get(st, "chat_history", <<>>)
        sent == <<generate_response("QUERY_ANALYSIS_PROMPT", <<>>, <<>>)>>
    IN  IF llm.ok
        THEN Returned(Set(Set(Set(st, "query_analysis", llm.text),
                              "fund_names", extract_fund_names(llm.text)),
                          "chat_history",
                          chat_history \o <<HumanMessage(query), AIMessage(NodeMsg.Analyzing)>>),
                      sent)
        ELSE Returned(Set(Set(st, "error", NodeMsg.QueryAnalysisFailed \o llm.text),
                          "chat_history", chat_history \o <<HumanMessage(query)>>),
                      sent)

\* for term in terms: results = await search_funds(term, limit=5);
\* search_results.extend(results).  listings[i] is the outcome of the i-th
\* listing request; the outcomes are independent of one another, as they are
\* with enable_cache off (with it on, a later request within the ttl repeats
\* the first outcome, which is one of the cases drawn here).  Neither
\* parse_search_terms nor the service's search_funds lets an exception out,
\* so the handler at lines 159-162 has nothing to catch.
SearchCalls(terms, listings) ==
    [i \in 1..Len(terms) |->
        [fn |-> "search_funds", query |-> terms[i], limit |-> search_limit,
         answer |-> listings[i],
         result |-> Service_search_funds(get_all_funds(listings[i].outcome,
                                                       listings[i].ver).value,
                                         terms[i], search_limit)]]

\* search_results after the loop: the results of the calls, one after another
RECURSIVE SearchEach(_, _)
SearchEach(made, i) ==
    IF i > Len(made) THEN <<>> ELSE made[i].result \o SearchEach(made, i + 1)

\* the results without their repeats, a code keeping its first result
RECURSIVE UniqueResultsFirstSeen(_, _)
UniqueResultsFirstSeen(search_results, unique) ==
    IF search_results = <<>> THEN unique
    ELSE LET r == Head(search_results)
         IN  UniqueResultsFirstSeen(Tail(search_results),
                 IF \E i \in 1..Len(unique) : unique[i].scheme_code = r.scheme_code
                 THEN unique ELSE Append(unique, r))

\* {result.scheme_code: result for result in search_results}, as the list of
\* its values: a code keeps the place of its first result and the value of
\* its last.
RECURSIVE UniqueResults(_, _)
UniqueResults(search_results, unique) ==
    IF search_results = <<>> THEN unique
    ELSE LET r == Head(search_results)
             seen == {i \in 1..Len(unique) : unique[i].scheme_code = r.scheme_code}
         IN  UniqueResults(Tail(search_results),
                           IF seen # {}
                           THEN [unique EXCEPT ![CHOOSE i \in seen : TRUE] = r]
                           ELSE Append(unique, r))

search_funds(st, llm, listings) ==
    LET query == st.query
        chat_history == Get(st, "chat_history", <<>>)
        fund_names == Get(st, "fund_names", <<>>)
        sent == IF fund_names # <<>> THEN <<>>
                ELSE <<generate_response("FUND_SEARCH_PROMPT", <<>>, <<>>)>>
    IN  IF fund_names = <<>> /\ ~llm.ok
        THEN Returned(Set(Set(Set(st, "error", NodeMsg.FundSearchFailed \o llm.text),
                              "search_results", <<>>),
                          "chat_history", chat_history),
                      sent)
        ELSE LET made == IF fund_names # <<>>
                         THEN SearchCalls(fund_names, listings)
                         ELSE SearchCalls(parse_search_terms(llm.text), listings)
                 unique_results == UniqueResults(SearchEach(made, 1), <<>>)
             IN  Requesting(Returned(Set(Set(st, "search_results", unique_results),
                                         "chat_history",
                                         chat_history \o <<AIMessage(NodeMsg.FoundPrefix
                                                                     \o Str(Len(unique_results))
                                                                     \o NodeMsg.FoundSuffix)>>),
                                     sent),
                             made)

\* for fund in search_results[:max_funds]: details = await get_fund_details(...);
\* if details: fund_details.append(details).  fetches[i] is the outcome of the
\* i-th fund request.
FetchCalls(funds, fetches) ==
    [i \in 1..Len(funds) |->
        [fn |-> "get_fund_details", scheme_code |-> funds[i].scheme_code,
         include_nav_data |-> TRUE,
         answer |-> fetches[i],
         result |-> Service_get_fund_details(get_fund(fetches[i], 0).value,
                                             funds[i].scheme_code, TRUE)]]

\* the details the calls returned, the newest in front
RECURSIVE FetchEachNewestFirst(_, _)
FetchEachNewestFirst(made, i) ==
    IF i > Len(made) THEN <<>> ELSE FetchEachNewestFirst(made, i + 1) \o made[i].result

\* fund_details after the loop: the details the calls returned
RECURSIVE FetchEach(_, _)
FetchEach(made, i) ==
    IF i > Len(made) THEN <<>> ELSE made[i].result \o FetchEach(made, i + 1)

\* fetch_fund_details starting its history anew
fetch_fund_detailsFreshHistory(st, fetches) ==
    LET search_results == Get(st, "search_results", <<>>)
        chat_history == <<>>
        max_funds == IF Len(search_results) < detail_limit THEN Len(search_results)
                     ELSE detail_limit
    IN  IF max_funds = 0
        THEN Returned(Set(Set(st, "fund_details", <<>>),
                          "chat_history", chat_history \o <<AIMessage(NodeMsg.NoRelevantFunds)>>),
                      <<>>)
        ELSE LET made == FetchCalls(SubSeq(search_results, 1, max_funds), fetches)
                 fund_details == FetchEach(made, 1)
             IN  Requesting(Returned(Set(Set(st, "fund_details", fund_details),
                                         "chat_history",
                                         chat_history \o <<AIMessage(NodeMsg.GatheredPrefix
                                                                     \o Str(Len(fund_details))
                                                                     \o NodeMsg.GatheredSuffix)>>),
                                     <<>>),
                            made)

fetch_fund_details(st, fetches) ==
    LET search_results == Get(st, "search_results", <<>>)
        chat_history == Get(st, "chat_history", <<>>)
        max_funds == IF Len(search_results) < detail_limit THEN Len(search_results)
                     ELSE detail_limit
    IN  IF max_funds = 0
        THEN Returned(Set(Set(st, "fund_details", <<>>),
                          "chat_history", chat_history \o <<AIMessage(NodeMsg.NoRelevantFunds)>>),
                      <<>>)
        ELSE LET made == FetchCalls(SubSeq(search_results, 1, max_funds), fetches)
                 fund_details == FetchEach(made, 1)
             IN  Requesting(Returned(Set(Set(st, "fund_details", fund_details),
                                         "chat_history",
                                         chat_history \o <<AIMessage(NodeMsg.GatheredPrefix
                                                                     \o Str(Len(fund_details))
                                                                     \o NodeMsg.GatheredSuffix)>>),
                                     <<>>),
                            made)

\* analyze_funds comparing whenever two details are at hand
analyze_fundsAlwaysCompares(st, llm) ==
    LET query == st.query
        fund_details == Get(st, "fund_details", <<>>)
        chat_history == Get(st, "chat_history", <<>>)
    IN  IF fund_details = <<>>
        THEN Returned(Set(Set(st, "response", NodeMsg.NoFundsResponse),
                          "chat_history", chat_history \o <<AIMessage(NodeMsg.NoFundsTurn)>>),
                      <<>>)
        ELSE LET sent == IF Len(fund_details) >= 2
                         THEN <<generate_response("FUND_COMPARISON_PROMPT", <<>>,
                                                  <<fund_details[1], fund_details[2]>>)>>
                         ELSE <<generate_response("FUND_ANALYSIS_PROMPT", <<>>,
                                                  <<fund_details[1]>>)>>
             IN  IF llm.ok
                 THEN Returned(Set(Set(st, "fund_analysis", llm.text),
                                   "chat_history",
                                   chat_history \o <<AIMessage(NodeMsg.AnalyzedTurn)>>),
                               sent)
                 ELSE Returned(Set(Set(Set(st, "error", NodeMsg.FundAnalysisFailed \o llm.text),
                                       "fund_analysis", NodeMsg.TechnicalError),
                                   "chat_history", chat_history),
                               sent)

analyze_funds(st, llm) ==
    LET query == st.query
        fund_details == Get(st, "fund_details", <<>>)
        chat_history == Get(st, "chat_history", <<>>)
    IN  IF fund_details = <<>>
        THEN Returned(Set(Set(st, "response", NodeMsg.NoFundsResponse),
                          "chat_history", chat_history \o <<AIMessage(NodeMsg.NoFundsTurn)>>),
                      <<>>)
        ELSE LET sent == IF Len(fund_details) >= 2 /\ is_comparison_query(query)
                         THEN <<generate_response("FUND_COMPARISON_PROMPT", <<>>,
                                                  <<fund_details[1], fund_details[2]>>)>>
                         ELSE <<generate_response("FUND_ANALYSIS_PROMPT", <<>>,
                                                  <<fund_details[1]>>)>>
             IN  IF llm.ok
                 THEN Returned(Set(Set(st, "fund_analysis", llm.text),
                                   "chat_history",
                                   chat_history \o <<AIMessage(NodeMsg.AnalyzedTurn)>>),
                               sent)
                 ELSE Returned(Set(Set(Set(st, "error", NodeMsg.FundAnalysisFailed \o llm.text),
                                       "fund_analysis", NodeMsg.TechnicalError),
                                   "chat_history", chat_history),
                               sent)

\* generate_final_response with its except clause taken away
generate_final_responseUnguarded(st, llm) ==
    LET query == st.query
        chat_history == Get(st, "chat_history", <<>>)
        fund_analysis == Get(st, "fund_analysis", <<>>)
        error == Get(st, "error", <<>>)
    IN  IF error # <<>> /\ fund_analysis = <<>>
        THEN Returned(Set(Set(st, "response", NodeMsg.CouldNotComplete),
                          "chat_history",
                          chat_history \o <<AIMessage(NodeMsg.CouldNotCompleteTurn)>>),
                      <<>>)
        ELSE LET sent == <<generate_response("FINAL_RESPONSE_PROMPT", <<final_temperature>>,
                                             <<>>)>>
             IN  IF llm.ok
                 THEN Returned(Set(Set(st, "response", llm.text),
                                   "chat_history", chat_history \o <<AIMessage(llm.text)>>),
                               sent)
                 ELSE Raised(st, sent)

\* generate_final_response answering with the error record when it gives up
generate_final_responseLeaksError(st, llm) ==
    LET query == st.query
        chat_history == Get(st, "chat_history", <<>>)
        fund_analysis == Get(st, "fund_analysis", <<>>)
        error == Get(st, "error", <<>>)
    IN  IF error # <<>> /\ fund_analysis = <<>>
        THEN Returned(Set(Set(st, "response", error),
                          "chat_history",
                          chat_history \o <<AIMessage(NodeMsg.CouldNotCompleteTurn)>>),
                      <<>>)
        ELSE LET sent == <<generate_response("FINAL_RESPONSE_PROMPT", <<final_temperature>>,
                                             <<>>)>>
             IN  IF llm.ok
                 THEN Returned(Set(Set(st, "response", llm.text),
                                   "chat_history", chat_history \o <<AIMessage(llm.text)>>),
                               sent)
                 ELSE Returned(Set(Set(st, "response",
                                       IF fund_analysis # <<>> THEN fund_analysis
                                       ELSE NodeMsg.CouldNotGenerate),
                                   "chat_history",
                                   chat_history \o <<AIMessage(NodeMsg.HeresWhatIFound)>>),
                               sent)

generate_final_response(st, llm) ==
    LET query == st.query
        chat_history == Get(st, "chat_history", <<>>)
        fund_analysis == Get(st, "fund_analysis", <<>>)
        error == Get(st, "error", <<>>)
    IN  IF error # <<>> /\ fund_analysis = <<>>
        THEN Returned(Set(Set(st, "response", NodeMsg.CouldNotComplete),
                          "chat_history",
                          chat_history \o <<AIMessage(NodeMsg.CouldNotCompleteTurn)>>),
                      <<>>)
        ELSE LET sent == <<generate_response("FINAL_RESPONSE_PROMPT", <<final_temperature>>,
                                             <<>>)>>
             IN  IF llm.ok
                 THEN Returned(Set(Set(st, "response", llm.text),
                                   "chat_history", chat_history \o <<AIMessage(llm.text)>>),
                               sent)
                 ELSE Returned(Set(Set(st, "response",
                                       IF fund_analysis # <<>> THEN fund_analysis
                                       ELSE NodeMsg.CouldNotGenerate),
                                   "chat_history",
                                   chat_history \o <<AIMessage(NodeMsg.HeresWhatIFound)>>),
                               sent)

(***************************************************************************)
(* FundAdvisorAgent (fund_agent.py).                                       *)
(***************************************************************************)
Nodes == {"analyze_query", "search_funds", "fetch_fund_details", "analyze_funds",
          "generate_final_response"}

\* _create_graph: add_edge(a, b) as a |-> b
Edges ==
    [n \in Nodes |->
        CASE n = "analyze_query" -> "search_funds"
          [] n = "search_funds" -> "fetch_fund_details"
          [] n = "fetch_fund_details" -> "analyze_funds"
          [] n = "analyze_funds" -> "generate_final_response"
          [] n = "generate_final_response" -> "END"]

EntryPoint == "analyze_query"

\* a graph whose search stage leads straight to the analysis stage
SuccessorSkippingFetch(n) == IF n = "search_funds" THEN "analyze_funds" ELSE Edges[n]

\* the node the compiled graph runs after node n
Successor(n) == Edges[n]

(***************************************************************************)
(* Inputs of one execution.                                                *)
(***************************************************************************)
MaxSearches == 2

Queries == {Query.Compare, Query.Single, Query.Better}
\* chat_history argument: None, or the turns of an earlier exchange
HistoryArgs == {<<>>, <<<<HumanMessage(Query.Hello)>>>>}

LLMOutcomes(texts) == {[ok |-> TRUE, text |-> t] : t \in texts}
                      \cup {[ok |-> FALSE, text |-> E_Provider]}
\* the texts generate_response may return to each node
NodeTexts ==
    [analyze_query |-> {Generated.OneName, Generated.TwoNames, Generated.NoName,
                        Generated.Unknown},
     search_funds |-> {Generated.TermsAll, Generated.TermsTwo, Generated.TermsBrackets,
                       Generated.TermsEmpty},
     analyze_funds |-> {Generated.Analysis, <<>>},
     generate_final_response |-> {Generated.Final, <<>>}]
RequestOutcomes == {"ok", "HTTPError"}
\* how a listing request is answered: with the listing as it stands at the
\* time, or not at all
ListingAnswers ==
    {[outcome |-> "ok", ver |-> 0], [outcome |-> "ok", ver |-> 1],
     [outcome |-> "HTTPError", ver |-> 0]}

CacheIdle ==
    /\ func = "get_fund"
    /\ enable_cache = TRUE
    /\ cache = <<>>
    /\ cache_info = [hits |-> 0, misses |-> 0]
    /\ now = 0
    /\ calls = [t \in Tasks |-> Idle]
    /\ funcCalls = 0
    /\ raisedKeys = {}
    /\ ev = Event("init", 0, <<>>, "-", None, <<>>)

\* process_query is called: lines 64-67
InitPipe ==
    /\ CacheIdle
    /\ pc = EntryPoint
    /\ \E query \in Queries, chat_history \in HistoryArgs :
          state = InitialState(query, chat_history)
    /\ trace = <<>>
    /\ llm_calls = <<>>
    /\ requests = <<>>
    /\ reply = [status |-> "running", value |-> <<>>]
    /\ StreamIdle
    /\ SvcIdle
    /\ ExecIdle

\* compiled_graph.ainvoke runs node n to its return r; an exception leaving
\* the node leaves ainvoke and is caught at process_query, lines 73-75.
RunNode(n, r) ==
    /\ llm_calls' = llm_calls \o r.llm_calls
    /\ requests' = requests \o r.requests
    /\ IF r.raised
       THEN /\ pc' = "done"
            /\ reply' = [status |-> "returned", value |-> AgentMsg.ProcessingError]
            /\ UNCHANGED <<state, trace>>
       ELSE /\ pc' = Successor(n)
            /\ state' = r.state
            /\ trace' = Append(trace, n)
            /\ UNCHANGED reply
    /\ UNCHANGED <<cacheVars, streamVars, svcVars, execVars>>

AnalyzeQuery ==
    /\ pc = "analyze_query"
    /\ \E llm \in LLMOutcomes(NodeTexts.analyze_query) :
          RunNode("analyze_query", Answered(analyze_query(state, llm), llm))

SearchFunds ==
    /\ pc = "search_funds"
    /\ \E llm \in LLMOutcomes(NodeTexts.search_funds),
          listings \in [1..MaxSearches -> ListingAnswers] :
          RunNode("search_funds", Answered(search_funds(state, llm, listings), llm))

FetchFundDetails ==
    /\ pc = "fetch_fund_details"
    /\ \E fetches \in [1..detail_limit -> RequestOutcomes] :
          RunNode("fetch_fund_details", fetch_fund_details(state, fetches))

AnalyzeFunds ==
    /\ pc = "analyze_funds"
    /\ \E llm \in LLMOutcomes(NodeTexts.analyze_funds) :
          RunNode("analyze_funds", Answered(analyze_funds(state, llm), llm))

GenerateFinalResponse ==
    /\ pc = "generate_final_response"
    /\ \E llm \in LLMOutcomes(NodeTexts.generate_final_response) :
          RunNode("generate_final_response", Answered(generate_final_response(state, llm), llm))

\* process_query, line 72: return result.get("response", ...)
ProcessQueryReturn ==
    /\ pc = "END"
    /\ pc' = "done"
    /\ reply' = [status |-> "returned", value |-> Get(state, "response", AgentMsg.NoResponse)]
    /\ UNCHANGED <<state, trace, llm_calls, requests>>
    /\ UNCHANGED <<cacheVars, streamVars, svcVars, execVars>>

NextPipe ==
    \/ AnalyzeQuery
    \/ SearchFunds
    \/ FetchFundDetails
    \/ AnalyzeFunds
    \/ GenerateFinalResponse
    \/ ProcessQueryReturn

SpecPipe == InitPipe /\ [][NextPipe]_vars

\* node n run on state st.  answers are the outcomes of its generate_response
\* calls and made the requests of the service with the outcomes of theirs,
\* both in the order the calls are made; a call beyond them fails.
NodeReturn(n, st, answers, made) ==
    LET llm == IF answers = <<>> THEN [ok |-> FALSE, text |-> E_Provider]
               ELSE answers[1]
        listings == [k \in 1..MaxSearches |->
                       IF k <= Len(made) /\ made[k].fn = "search_funds"
                       THEN made[k].answer
                       ELSE [outcome |-> "HTTPError", ver |-> 0]]
        fetches == [k \in 1..detail_limit |->
                       IF k <= Len(made) /\ made[k].fn = "get_fund_details"
                       THEN made[k].answer
                       ELSE "HTTPError"]
    IN  CASE n = "analyze_query" -> analyze_query(st, llm)
          [] n = "search_funds" -> search_funds(st, llm, listings)
          [] n = "fetch_fund_details" -> fetch_fund_details(st, fetches)
          [] n = "analyze_funds" -> analyze_funds(st, llm)
          [] n = "generate_final_response" -> generate_final_response(st, llm)

\* compiled_graph.ainvoke(state) from node n on: the nodes in graph order, each
\* on the state the one before returned and on the outcomes the ones before
\* have left
RECURSIVE ainvoke(_, _, _, _, _)
ainvoke(n, st, ran, answers, made) ==
    IF n = "END" THEN [raised |-> FALSE, state |-> st, trace |-> ran]
    ELSE LET Rest(r) == IF r.raised THEN [raised |-> TRUE, state |-> st, trace |-> ran]
                        ELSE ainvoke(Successor(n), r.state, Append(ran, n),
                                     SubSeq(answers, Len(r.llm_calls) + 1, Len(answers)),
                                     SubSeq(made, Len(r.requests) + 1, Len(made)))
         IN  Rest(NodeReturn(n, st, answers, made))

\* process_query(query, chat_history) as a whole: the nodes it ran and the
\* text it returns
process_query(query, chat_history, answers, made) ==
    LET Result(r) ==
            [trace |-> r.trace,
             value |-> IF r.raised THEN AgentMsg.ProcessingError
                       ELSE Get(r.state, "response", AgentMsg.NoResponse)]
    IN  Result(ainvoke(EntryPoint, InitialState(query, chat_history), <<>>, answers, made))

(***************************************************************************)
(* The fixed texts of process_query_stream, and the message of an          *)
(* exception raised while streaming.                                       *)
(***************************************************************************)
node_messages ==
    [analyze_query |->
      <<"A", "n", "a", "l", "y", "z", "i", "n", "g", " ", "y", "o", "u", "r", " ", "q", "u",
        "e", "r", "y", " ", "a", "b", "o", "u", "t", " ", "m", "u", "t", "u", "a", "l", " ",
        "f", "u", "n", "d", "s", ".", ".", ".", "\n", "\n">>,
     search_funds |->
      <<"S", "e", "a", "r", "c", "h", "i", "n", "g", " ", "f", "o", "r", " ", "r", "e", "l",
        "e", "v", "a", "n", "t", " ", "m", "u", "t", "u", "a", "l", " ", "f", "u", "n", "d",
        "s", ".", ".", ".", "\n", "\n">>,
     fetch_fund_details |->
      <<"F", "e", "t", "c", "h", "i", "n", "g", " ", "d", "e", "t", "a", "i", "l", "e", "d",
        " ", "f", "u", "n", "d", " ", "i", "n", "f", "o", "r", "m", "a", "t", "i", "o", "n",
        ".", ".", ".", "\n", "\n">>,
     analyze_funds |->
      <<"A", "n", "a", "l", "y", "z", "i", "n", "g", " ", "f", "u", "n", "d", " ", "p", "e",
        "r", "f", "o", "r", "m", "a", "n", "c", "e", " ", "a", "n", "d", " ", "c", "h", "a",
        "r", "a", "c", "t", "e", "r", "i", "s", "t", "i", "c", "s", ".", ".", ".", "\n", "\n">>,
     generate_final_response |->
      <<"P", "r", "e", "p", "a", "r", "i", "n", "g", " ", "y", "o", "u", "r", " ", "p", "e",
        "r", "s", "o", "n", "a", "l", "i", "z", "e", "d", " ", "r", "e", "s", "p", "o", "n",
        "s", "e", ".", ".", ".", "\n", "\n">>]

(***************************************************************************)
(* The streaming variant: FundAdvisorAgent.process_query_stream            *)
(* (fund_agent.py) consumed by query_funds_stream.generate (routes.py).    *)
(* compiled_graph.astream is taken to deliver, for every node in graph     *)
(* order, an on_chain_start event before the node runs and an on_chain_end *)
(* event carrying the node's output once it has returned: the events the   *)
(* loop at lines 105-114 is written against.  It may also raise.           *)
(***************************************************************************)

\* process_query_stream, lines 107-114 with every end event taken for the last
StreamChunksForAnyEnd(event) ==
    IF event.type = "on_chain_start"
    THEN IF event.name \in DOMAIN node_messages THEN <<node_messages[event.name]>> ELSE <<>>
    ELSE IF event.type = "on_chain_end"
         THEN IF "response" \in event.data.keys THEN <<event.data.response>> ELSE <<>>
         ELSE <<>>

\* process_query_stream, lines 107-114: what one event makes the generator yield
StreamChunksFor(event) ==
    IF event.type = "on_chain_start"
    THEN IF event.name \in DOMAIN node_messages THEN <<node_messages[event.name]>> ELSE <<>>
    ELSE IF event.type = "on_chain_end" /\ event.name = "generate_final_response"
         THEN IF "response" \in event.data.keys THEN <<event.data.response>> ELSE <<>>
         ELSE <<>>

\* process_query_stream without its except clause: the exception leaves it
StreamExceptAbsent(e) == [raised |-> TRUE, value |-> e, chunks |-> <<>>]

\* process_query_stream, lines 116-118: an exception out of the loop
StreamExcept(e) == [raised |-> FALSE, value |-> e, chunks |-> <<AgentMsg.StreamError>>]

\* generate, line 403: yield f"data: {json.dumps({'chunk': chunk})}\n\n"
ChunkFrame(chunk) == [frame |-> "data", key |-> "chunk", value |-> chunk]
\* generate, line 408: yield "data: [DONE]\n\n"
DoneFrame == [frame |-> "data", key |-> "[DONE]", value |-> <<>>]

\* generate, lines 400-406: the frames for what process_query_stream did
RECURSIVE Frames(_)
Frames(cs) == IF cs = <<>> THEN <<>> ELSE <<ChunkFrame(Head(cs))>> \o Frames(Tail(cs))

GenerateFrames(r) ==
    Frames(r.chunks)
    \o (IF r.raised THEN <<[frame |-> "data", key |-> "error", value |-> r.value]>> ELSE <<>>)

\* query_funds_stream is called and the response body starts to be read
InitStream ==
    /\ CacheIdle
    /\ pc = EntryPoint
    /\ \E query \in Queries, chat_history \in HistoryArgs :
          /\ state = InitialState(query, chat_history)
          /\ stream = [phase |-> "start", failed |-> FALSE,
                       query |-> query, chat_history |-> chat_history]
    /\ trace = <<>>
    /\ llm_calls = <<>>
    /\ requests = <<>>
    /\ reply = [status |-> "none", value |-> <<>>]
    /\ chunks = <<>>
    /\ SvcIdle
    /\ ExecIdle

\* astream delivers on_chain_start for the node about to run
StreamChainStart ==
    /\ stream.phase = "start"
    /\ pc \in Nodes
    /\ chunks' = chunks \o GenerateFrames([raised |-> FALSE, value |-> <<>>,
                                           chunks |-> StreamChunksFor([type |-> "on_chain_start", name |-> pc,
                                                            data |-> [keys |-> {}]])])
    /\ stream' = [stream EXCEPT !.phase = "run"]
    /\ UNCHANGED <<pc, state, trace, llm_calls, requests, reply>>
    /\ UNCHANGED <<cacheVars, svcVars, execVars>>

\* node n runs to its return r and astream delivers its on_chain_end; an
\* exception leaving the node leaves astream at line 105
StreamNode(n, r) ==
    /\ stream.phase = "run"
    /\ llm_calls' = llm_calls \o r.llm_calls
    /\ requests' = requests \o r.requests
    /\ IF r.raised
       THEN /\ chunks' = chunks \o GenerateFrames(StreamExcept(E_Stream))
            /\ stream' = [stream EXCEPT !.phase = "closing", !.failed = TRUE]
            /\ UNCHANGED <<pc, state, trace>>
       ELSE /\ chunks' = chunks \o GenerateFrames([raised |-> FALSE, value |-> <<>>,
                                                   chunks |-> StreamChunksFor([type |-> "on_chain_end", name |-> n,
                                                                    data |-> r.state])])
            /\ stream' = [stream EXCEPT !.phase = "start"]
            /\ pc' = Successor(n)
            /\ state' = r.state
            /\ trace' = Append(trace, n)
    /\ UNCHANGED reply
    /\ UNCHANGED <<cacheVars, svcVars, execVars>>

StreamAnalyzeQuery ==
    /\ pc = "analyze_query"
    /\ \E llm \in LLMOutcomes(NodeTexts.analyze_query) :
          StreamNode("analyze_query", Answered(analyze_query(state, llm), llm))

StreamSearchFunds ==
    /\ pc = "search_funds"
    /\ \E llm \in LLMOutcomes(NodeTexts.search_funds),
          listings \in [1..MaxSearches -> ListingAnswers] :
          StreamNode("search_funds", Answered(search_funds(state, llm, listings), llm))

StreamFetchFundDetails ==
    /\ pc = "fetch_fund_details"
    /\ \E fetches \in [1..detail_limit -> RequestOutcomes] :
          StreamNode("fetch_fund_details", fetch_fund_details(state, fetches))

StreamAnalyzeFunds ==
    /\ pc = "analyze_funds"
    /\ \E llm \in LLMOutcomes(NodeTexts.analyze_funds) :
          StreamNode("analyze_funds", Answered(analyze_funds(state, llm), llm))

StreamGenerateFinalResponse ==
    /\ pc = "generate_final_response"
    /\ \E llm \in LLMOutcomes(NodeTexts.generate_final_response) :
          StreamNode("generate_final_response", Answered(generate_final_response(state, llm), llm))

\* astream raises instead of delivering its next event: lines 116-118, then
\* generate's except clause for whatever process_query_stream lets through
StreamFail ==
    /\ stream.phase \in {"start", "run"}
    /\ chunks' = chunks \o GenerateFrames(StreamExcept(E_Stream))
    /\ stream' = [stream EXCEPT !.phase = "closing", !.failed = TRUE]
    /\ UNCHANGED <<pc, state, trace, llm_calls, requests, reply>>
    /\ UNCHANGED <<cacheVars, svcVars, execVars>>

\* astream is exhausted and process_query_stream returns
StreamExhausted ==
    /\ stream.phase = "start"
    /\ pc = "END"
    /\ stream' = [stream EXCEPT !.phase = "closing"]
    /\ UNCHANGED <<pc, state, trace, llm_calls, requests, reply, chunks>>
    /\ UNCHANGED <<cacheVars, svcVars, execVars>>

\* generate, lines 407-408: finally
StreamDone ==
    /\ stream.phase = "closing"
    /\ chunks' = Append(chunks, DoneFrame)
    /\ stream' = [stream EXCEPT !.phase = "closed"]
    /\ UNCHANGED <<pc, state, trace, llm_calls, requests, reply>>
    /\ UNCHANGED <<cacheVars, svcVars, execVars>>

NextStream ==
    \/ StreamChainStart
    \/ StreamAnalyzeQuery
    \/ StreamSearchFunds
    \/ StreamFetchFundDetails
    \/ StreamAnalyzeFunds
    \/ StreamGenerateFinalResponse
    \/ StreamFail
    \/ StreamExhausted
    \/ StreamDone

SpecStream == InitStream /\ [][NextStream]_vars

(***************************************************************************)
(* The service functions called on their own, as the routes call them      *)
(* (routes.py, search_funds and get_fund_details).                         *)
(***************************************************************************)
MaxLimit == 5

\* the q parameter of the search route
SearchQuery ==
    [HdfcTop100 |-> <<"h", "d", "f", "c", " ", "t", "o", "p", " ", "1", "0", "0">>,
     Hdfc |-> <<"H", "D", "F", "C">>,
     Fund |-> <<"f", "u", "n", "d">>,
     TopFund |-> <<"T", "o", "p", " ", " ", "F", "u", "n", "d">>,
     SbiBond |-> <<"s", "b", "i", " ", "b", "o", "n", "d">>,
     Unknown |-> <<"x", "y", "z">>,
     SbiUnknown |-> <<"s", "b", "i", " ", "x", "y", "z">>,
     Blank |-> <<" ">>,
     Empty |-> <<>>]

SearchArgs ==
    [query : {SearchQuery[k] : k \in DOMAIN SearchQuery}, limit : 0..MaxLimit, listing : RequestOutcomes]

\* valuation histories, newest first, as the provider lists them
NavHistory ==
    [TwoPoint |->    \* two valuations a year apart
      <<NavPoint(<<"2", "1", "-", "0", "4", "-", "2", "0", "2", "3">>, 845123),
        NavPoint(<<"2", "1", "-", "0", "4", "-", "2", "0", "2", "2">>, 800000)>>,
     One |->    \* a single valuation
      <<NavPoint(<<"2", "1", "-", "0", "4", "-", "2", "0", "2", "3">>, 845123)>>,
     BadLatest |->    \* the latest date is not day-month-year
      <<NavPoint(<<"2", "0", "2", "3", "-", "0", "4", "-", "2", "1">>, 845123),
        NavPoint(<<"2", "1", "-", "0", "4", "-", "2", "0", "2", "2">>, 800000)>>,
     BadEntry |->    \* an older date is not day-month-year
      <<NavPoint(<<"2", "1", "-", "0", "4", "-", "2", "0", "2", "3">>, 845123),
        NavPoint(<<"2", "0", "2", "2", "-", "0", "4", "-", "2", "1">>, 700000),
        NavPoint(<<"2", "0", "-", "0", "4", "-", "2", "0", "2", "2">>, 800000)>>,
     ZeroClosest |->    \* the valuation a year back is zero
      <<NavPoint(<<"2", "1", "-", "0", "4", "-", "2", "0", "2", "3">>, 845123),
        NavPoint(<<"2", "1", "-", "0", "4", "-", "2", "0", "2", "2">>, 0)>>,
     FiveYears |->    \* valuations reaching five years back
      <<NavPoint(<<"2", "1", "-", "0", "4", "-", "2", "0", "2", "3">>, 900000),
        NavPoint(<<"2", "2", "-", "0", "3", "-", "2", "0", "2", "3">>, 890000),
        NavPoint(<<"2", "1", "-", "0", "4", "-", "2", "0", "2", "2">>, 800000),
        NavPoint(<<"2", "1", "-", "0", "4", "-", "2", "0", "2", "0">>, 600000),
        NavPoint(<<"2", "2", "-", "0", "4", "-", "2", "0", "1", "8">>, 450000)>>,
     Tie |->    \* two valuations two days either side of the day 30 days back
      <<NavPoint(<<"2", "1", "-", "0", "4", "-", "2", "0", "2", "3">>, 845123),
        NavPoint(<<"2", "4", "-", "0", "3", "-", "2", "0", "2", "3">>, 810000),
        NavPoint(<<"2", "0", "-", "0", "3", "-", "2", "0", "2", "3">>, 820000)>>,
     TenDays |->    \* a fund whose history began ten days ago
      <<NavPoint(<<"2", "1", "-", "0", "4", "-", "2", "0", "2", "3">>, 845123),
        NavPoint(<<"1", "1", "-", "0", "4", "-", "2", "0", "2", "3">>, 800000)>>,
     BadSecond |->    \* two valuations, the date of the older one year-month-day
      <<NavPoint(<<"2", "1", "-", "0", "4", "-", "2", "0", "2", "3">>, 845123),
        NavPoint(<<"2", "0", "2", "2", "-", "0", "4", "-", "2", "1">>, 800000)>>,
     BadNewest |->    \* the newest date year-month-day, two good ones after it
      <<NavPoint(<<"2", "0", "2", "3", "-", "0", "4", "-", "2", "2">>, 850000),
        NavPoint(<<"2", "1", "-", "0", "4", "-", "2", "0", "2", "3">>, 845123),
        NavPoint(<<"2", "1", "-", "0", "4", "-", "2", "0", "2", "2">>, 800000)>>]

ReturnsArgs == [nav_data : {<<>>} \cup {NavHistory[k] : k \in DOMAIN NavHistory}]

\* the arguments of get_fund_details, one scheme code being unknown to the
\* provider, and the outcome of its fund-data request
DetailsArgs ==
    [scheme_code : SchemeCodes \cup {999}, include_nav_data : BOOLEAN,
     fetch : RequestOutcomes]

Pending(fn, args) == [fn |-> fn, args |-> args, returned |-> FALSE, result |-> <<>>]

\* a route is about to call a service function with arguments of its caller
InitService ==
    /\ CacheIdle
    /\ PipeIdle
    /\ StreamIdle
    /\ ExecIdle
    /\ \/ \E args \in SearchArgs : svc = Pending("search_funds", args)
       \/ \E args \in ReturnsArgs : svc = Pending("_calculate_returns", args)
       \/ \E args \in DetailsArgs : svc = Pending("get_fund_details", args)

\* mutual_fund_service.search_funds(q, limit=limit) runs to its return
SearchFundsCall ==
    /\ svc.fn = "search_funds" /\ ~svc.returned
    /\ svc' = [svc EXCEPT !.returned = TRUE,
                          !.result = Service_search_funds(get_all_funds(svc.args.listing, 0).value,
                                                          svc.args.query, svc.args.limit)]
    /\ UNCHANGED <<cacheVars, pipeVars, streamVars, execVars>>

\* self._calculate_returns(nav_data_raw) runs to its return
CalculateReturnsCall ==
    /\ svc.fn = "_calculate_returns" /\ ~svc.returned
    /\ svc' = [svc EXCEPT !.returned = TRUE,
                          !.result = _calculate_returns(svc.args.nav_data)]
    /\ UNCHANGED <<cacheVars, pipeVars, streamVars, execVars>>

\* mutual_fund_service.get_fund_details(scheme_code, include_nav_data) runs to
\* its return
GetFundDetailsCall ==
    /\ svc.fn = "get_fund_details" /\ ~svc.returned
    /\ svc' = [svc EXCEPT !.returned = TRUE,
                          !.result = Service_get_fund_details(get_fund(svc.args.fetch, 0).value,
                                                              svc.args.scheme_code,
                                                              svc.args.include_nav_data)]
    /\ UNCHANGED <<cacheVars, pipeVars, streamVars, execVars>>

NextService ==
    \/ SearchFundsCall
    \/ CalculateReturnsCall
    \/ GetFundDetailsCall

SpecService == InitService /\ [][NextService]_vars

(***************************************************************************)
(* Concurrent executions: process_query called NumExecs times on one event *)
(* loop.  An execution runs until it awaits an external call, which is a   *)
(* generate_response call or the request inside a wrapped repository       *)
(* function, and goes on when that call has returned or raised.  The cache *)
(* of each decorated function is the one object the executions share.      *)
(***************************************************************************)
NumExecs == 2

\* The outcomes drawn for the external calls of an execution: of the
\* generate_response call of a node, and of the request of a wrapped function.
ExecOutcomes(k) ==
    CASE k = "analyze_query" -> {[ok |-> TRUE, text |-> Generated.NoName]}
      [] k = "search_funds" -> {[ok |-> TRUE, text |-> Generated.TermsAll]}
      [] k = "analyze_funds" -> {[ok |-> TRUE, text |-> Generated.Analysis]}
      [] k = "generate_final_response" -> LLMOutcomes({Generated.Final})
      [] k = "get_all_funds" -> {[outcome |-> "ok", ver |-> 0], [outcome |-> "HTTPError", ver |-> 0]}
      [] k = "get_fund" -> {[outcome |-> "ok", ver |-> 0]}
      [] OTHER -> {}

\* state with the list its chat_history names
Seen(h, e, st) ==
    [st EXCEPT !.chat_history = IF @ = "caller" THEN h.caller ELSE h.own[e]]

\* chat_history.extend([...]): the list the state names is changed in place
ListExtend(h, e, ref, items) ==
    [heap |-> IF ref = "caller" THEN [h EXCEPT !.caller = items]
              ELSE [h EXCEPT !.own[e] = items],
     ref |-> ref]

\* chat_history + [...]: a new list, which only the returned state names; a
\* node that hands chat_history on as it is keeps the list it was given
ListPlus(h, e, ref, items) ==
    IF items = (IF ref = "caller" THEN h.caller ELSE h.own[e])
    THEN [heap |-> h, ref |-> ref]
    ELSE [heap |-> [h EXCEPT !.own[e] = items], ref |-> "own"]

\* the wrapper joining a lookup of the same key that is in flight
WrapperLookupSingleFlight(on, c, key, t, flying) ==
    IF ~on THEN "bypass"
    ELSE IF CacheLookupHit(c, key, t) THEN "hit"
    ELSE IF key \in flying THEN "join"
    ELSE "miss"

\* wrapper, lines 30-48: how a call goes on.  flying are the keys other
\* calls are awaiting the wrapped function for; the wrapper keeps no record
\* of them.
WrapperLookup(on, c, key, t, flying) ==
    IF ~on THEN "bypass"
    ELSE IF CacheLookupHit(c, key, t) THEN "hit"
    ELSE "miss"

\* what the service makes of the value the repository returned
AnswerOf(f, value) ==
    IF f = "get_all_funds"
    THEN IF value.status = "SUCCESS" THEN [outcome |-> "ok", ver |-> value.ver]
         ELSE [outcome |-> "HTTPError", ver |-> 0]
    ELSE IF value.status = "SUCCESS" THEN "ok" ELSE "HTTPError"

\* an execution that may start a call though one of its calls is in flight
AwaitingNever(x) == FALSE

\* await: an execution with a call in flight is suspended
Awaiting(x) == x.pending # <<>>

\* Execution e, which the event loop is running, goes on by one statement of
\* world w = [execs, heap, caches]: it reaches the await of a
\* generate_response call; or it calls a service function, which calls a
\* wrapped repository function (wrapper, lines 30-49, up to the await of the
\* wrapped function); or its node returns and the graph moves on; or the
\* graph has ended and process_query returns (line 72).  Suspended or
\* returned, it leaves w as it is.
ExecAdvance(w, e) ==
    LET \* the keys for which other executions await the wrapped function
        Flying ==
            UNION {{w.execs[o].pending[i].key :
                       i \in {j \in 1..Len(w.execs[o].pending) :
                                 w.execs[o].pending[j].kind = "request"}} :
                   o \in (1..NumExecs) \ {e}}
        Issue(x) ==
            [w EXCEPT !.execs[e].pending = Append(@, [kind |-> "llm"]),
                      !.execs[e].log = Append(@, [kind |-> "llm", key |-> <<>>,
                                                  flying |-> FALSE])]
        Begin(x, rq, f, key, how) ==
            [w EXCEPT
                !.execs[e].log = Append(@, [kind |-> how, key |-> key,
                                            flying |-> key \in Flying]),
                !.execs[e].got.made =
                    IF how = "hit"
                    THEN Append(@, [fn |-> rq.fn,
                                    answer |-> AnswerOf(f, w.caches[f][KeyIndex(w.caches[f], key)].value)])
                    ELSE @,
                !.execs[e].pending =
                    IF how = "hit" THEN @
                    ELSE Append(@, [kind |-> IF how = "join" THEN "join" ELSE "request",
                                    fn |-> rq.fn, func |-> f, key |-> key,
                                    now |-> now, cached |-> how = "miss"])]
        Key(x, rq, f, key) ==
            Begin(x, rq, f, key,
                  WrapperLookup(enable_cache, w.caches[f], key, now, Flying))
        Lookup(x, rq) ==
            IF rq.fn = "search_funds"
            THEN Key(x, rq, "get_all_funds", CacheKey("get_all_funds", <<>>))
            ELSE Key(x, rq, "get_fund", CacheKey("get_fund", <<rq.scheme_code>>))
        Bind(x, r, l) ==
            [w EXCEPT !.heap = l.heap,
                      !.execs[e].pc = Successor(@),
                      !.execs[e].state = [r.state EXCEPT !.chat_history = l.ref],
                      !.execs[e].got = [answers |-> <<>>, made |-> <<>>]]
        Node(x, r) ==
            IF Len(x.got.answers) + Len(x.pending) < Len(r.llm_calls) THEN Issue(x)
            ELSE IF Len(x.got.answers) < Len(r.llm_calls) THEN w
            ELSE IF Len(x.got.made) + Len(x.pending) < Len(r.requests)
                 THEN Lookup(x, r.requests[Len(x.got.made) + Len(x.pending) + 1])
            ELSE IF Len(x.got.made) < Len(r.requests) THEN w
            ELSE IF r.raised
                 THEN [w EXCEPT !.execs[e].pc = "done",
                                !.execs[e].reply = [status |-> "returned",
                                                    value |-> AgentMsg.ProcessingError]]
            ELSE Bind(x, r, ListPlus(w.heap, e, x.state.chat_history, r.state.chat_history))
        Go(x) ==
            IF x.pc = "END"
            THEN [w EXCEPT !.execs[e].pc = "done",
                           !.execs[e].reply = [status |-> "returned",
                                               value |-> Get(x.state, "response",
                                                             AgentMsg.NoResponse)]]
            ELSE IF x.pc \notin Nodes \/ Awaiting(x) THEN w
            ELSE Node(x, NodeReturn(x.pc, Seen(w.heap, e, x.state), x.got.answers, x.got.made))
    IN  Go(w.execs[e])

\* The event loop runs execution e until it is suspended or has returned: no
\* other execution runs in between.
RECURSIVE RunOn(_, _)
RunOn(w, e) ==
    LET Then(v) == IF v = w THEN w ELSE RunOn(v, e)
    IN  Then(ExecAdvance(w, e))

\* the event loop picks execution e to run: one that has not begun to run
\* (k is "start") or one whose awaited call, of kind k, has ended
Picks(e, k) ==
    /\ IF k = "start" THEN execs[e].pc = EntryPoint /\ execs[e].log = <<>>
       ELSE execs[e].pending # <<>> /\ execs[e].pending[1].kind = k
    /\ turn' = [e |-> e, n |-> turn.n + 1]

\* the variables become world w
Becomes(w) ==
    /\ execs' = w.execs
    /\ heap' = w.heap
    /\ caches' = w.caches
    /\ UNCHANGED <<cacheVars, pipeVars, streamVars, svcVars>>

\* process_query is called NumExecs times, each time with the caller's
\* history list; no call has begun to run
InitExec ==
    /\ CacheIdle
    /\ PipeIdle
    /\ StreamIdle
    /\ SvcIdle
    /\ execs = [e \in 1..NumExecs |->
                   [pc |-> EntryPoint,
                    state |-> [InitialState(Query.Single, <<>>) EXCEPT
                                  !.chat_history = "caller"],
                    got |-> [answers |-> <<>>, made |-> <<>>],
                    pending |-> <<>>,
                    log |-> <<>>,
                    reply |-> [status |-> "running", value |-> <<>>]]]
    /\ heap = [caller |-> <<HumanMessage(Query.Hello)>>, own |-> [e \in 1..NumExecs |-> <<>>]]
    /\ caches = [f \in Funcs |-> <<>>]
    /\ turn = [e |-> 0, n |-> 0]

\* the event loop starts to run execution e
ExecStart(e) ==
    /\ Picks(e, "start")
    /\ Becomes(RunOn([execs |-> execs, heap |-> heap, caches |-> caches], e))

\* the generate_response call execution e awaits returns or raises, and the
\* event loop runs e on
ExecAnswer(e, llm) ==
    /\ Picks(e, "llm")
    /\ llm \in ExecOutcomes(execs[e].pc)
    /\ Becomes(RunOn([execs |-> [execs EXCEPT ![e].pending = Tail(@),
                                              ![e].got.answers = Append(@, llm)],
                      heap |-> heap, caches |-> caches], e))

\* the request execution e awaits ends, the wrapper runs to its end (lines
\* 49-58), and the event loop runs e on
ExecResolve(e, outcome) ==
    /\ Picks(e, "request")
    /\ outcome \in ExecOutcomes(execs[e].pending[1].func)
    /\ LET End(call, v) ==
               Becomes(RunOn([execs |-> [execs EXCEPT
                                  ![e].pending = Tail(@),
                                  ![e].got.made = Append(@, [fn |-> call.fn,
                                                             answer |-> AnswerOf(call.func, v.result)])],
                              heap |-> heap,
                              caches |-> [caches EXCEPT ![call.func] = v.cache]], e))
           After(call, r) ==
               End(call, IF call.cached THEN WrapperAfterAwait(caches[call.func], call, r)
                         ELSE WrapperBypass(caches[call.func], call, r))
           Resume(call) == After(call, WrappedFunc(call.func, outcome.outcome, outcome.ver))
       IN  Resume(execs[e].pending[1])

NextExec ==
    \/ \E e \in 1..NumExecs : ExecStart(e)
    \/ \E e \in 1..NumExecs : \E llm \in LLMOutcomes({Generated.NoName, Generated.TermsAll,
                                                      Generated.Analysis, Generated.Final}) :
          ExecAnswer(e, llm)
    \/ \E e \in 1..NumExecs : \E outcome \in ExecOutcomes("get_all_funds") :
          ExecResolve(e, outcome)

SpecExec == InitExec /\ [][NextExec]_vars

\* Fairness is stated on the event loop's choice: Picks(e, k) is enabled
\* exactly when the action of execution e that holds it is, and a step of
\* SpecExec is a Picks(e, k) step exactly when it is a step of that action.
\* The event loop starts every execution; the external calls of execution 1
\* end, those of the others need not.
SpecExecStalled ==
    /\ SpecExec
    /\ \A e \in 1..NumExecs : WF_turn(Picks(e, "start"))
    /\ WF_turn(Picks(1, "llm") \/ Picks(1, "request"))

\* The event loop starts every execution, and every external call ends.
SpecExecFair ==
    /\ SpecExec
    /\ \A e \in 1..NumExecs : WF_turn(Picks(e, "start"))
    /\ \A e \in 1..NumExecs : WF_turn(Picks(e, "llm") \/ Picks(e, "request"))

(***************************************************************************)
(* Properties of the result cache.                                         *)
(***************************************************************************)
Entries(c) == {c[i] : i \in 1..Len(c)}
Keys(c) == {c[i].key : i \in 1..Len(c)}

\* The step just taken is the start of a wrapper call with caching enabled.
BeginsCached == enable_cache /\ ev'.op = "begin"
\* The step just taken is a wrapper call with caching enabled storing a result.
StoresResult == enable_cache /\ ev'.op = "end" /\ ev'.kind = "returned"

\* C3: with caching enabled, a call that begins while the map holds an entry
\* for its key with now < expiry returns that entry's value, adds one to the
\* hit counter and does not invoke the wrapped function.
C3_HitWithinTTL ==
    [][(BeginsCached /\ \E e \in Entries(cache) : e.key = ev'.key /\ now < e.expiry)
        => /\ ev'.kind = "hit"
           /\ \E e \in Entries(cache) : e.key = ev'.key /\ e.value = ev'.result
           /\ cache_info'.hits = cache_info.hits + 1
           /\ cache_info'.misses = cache_info.misses
           /\ funcCalls' = funcCalls
           /\ calls'[ev'.task].st = "idle"
           /\ cache' = cache]_vars

C3_Witness ==
    /\ enable_cache /\ ev.op = "begin" /\ ev.kind = "hit"
    /\ ev.result # None /\ ev.result # EmptyList
    /\ cache_info.hits = 1 /\ funcCalls = 1

\* C4: a call that begins at or past the expiry of the entry for its key is a
\* miss and invokes the wrapped function; when the function returns, the
\* entry holds the new result with expiry start + ttl, later than the old
\* one; a hit never returns the value of an expired entry.
C4_ExpiredMissRefresh ==
    [][/\ (BeginsCached /\ \E e \in Entries(cache) : e.key = ev'.key /\ now >= e.expiry)
          => /\ ev'.kind = "miss"
             /\ cache_info'.misses = cache_info.misses + 1
             /\ cache_info'.hits = cache_info.hits
             /\ funcCalls' = funcCalls + 1
             /\ calls'[ev'.task].st = "awaiting"
       /\ StoresResult
          => \E e \in Entries(cache') :
                /\ e.key = ev'.key
                /\ e.value = ev'.result
                /\ e.expiry = calls[ev'.task].now + ttl
                /\ \A o \in Entries(cache) :
                      (o.key = e.key /\ calls[ev'.task].now >= o.expiry) => e.expiry > o.expiry
       /\ (BeginsCached /\ ev'.kind = "hit")
          => \E e \in Entries(cache) :
                e.key = ev'.key /\ e.value = ev'.result /\ now < e.expiry]_vars

C4_Witness ==
    /\ enable_cache /\ ev.op = "begin" /\ ev.kind = "miss"
    /\ \E e \in Entries(cache) : e.key = ev.key /\ now >= e.expiry
    /\ calls[ev.task].st = "awaiting"

\* C5: under every interleaving of calls the map never holds more than
\* max_items entries (and never two entries for one key).
C5_SizeBounded ==
    /\ Len(cache) <= max_items
    /\ \A i, j \in 1..Len(cache) : cache[i].key = cache[j].key => i = j

\* A store has just filled the map while another call, whose key is not in
\* the map, is still awaiting its wrapped function.
C5_Witness ==
    /\ enable_cache /\ ev.op = "end" /\ ev.kind = "returned"
    /\ Len(cache) = max_items
    /\ \E t \in Tasks : /\ calls[t].st = "awaiting" /\ calls[t].cached
                        /\ calls[t].key \notin Keys(cache)

\* C6: a store into a map of max_items or more entries first removes exactly
\* one entry, one of minimal expiry; a store into a smaller map removes none.
C6_EvictOneMinExpiry ==
    [][StoresResult =>
        IF Len(cache) >= max_items
        THEN /\ Len(ev'.evicted) = 1
             /\ ev'.evicted[1] \in Entries(cache)
             /\ \A e \in Entries(cache) : ev'.evicted[1].expiry <= e.expiry
             /\ Keys(cache') = (Keys(cache) \ {ev'.evicted[1].key}) \cup {ev'.key}
             /\ \A e \in Entries(cache) :
                   e.key \notin {ev'.evicted[1].key, ev'.key} => e \in Entries(cache')
        ELSE /\ ev'.evicted = <<>>
             /\ Keys(cache') = Keys(cache) \cup {ev'.key}
             /\ \A e \in Entries(cache) : e.key # ev'.key => e \in Entries(cache')]_vars

C6_Witness ==
    /\ enable_cache /\ ev.op = "end" /\ ev.kind = "returned" /\ Len(ev.evicted) = 1
    /\ ev.evicted[1].key # ev.key
    /\ \E e \in Entries(cache) : e.key # ev.key /\ e.expiry > ev.evicted[1].expiry
    /\ cache[1].key # ev.key

\* C7 as stated: when the wrapped function raises, the exception reaches the
\* caller and the map is unchanged, and the next call with the same key
\* invokes the wrapped function again.
C7_Original ==
    [][/\ (enable_cache /\ ev'.op = "end" /\ calls[ev'.task].cached /\ ev'.kind = "raised")
          => /\ cache' = cache
             /\ ev'.result = Exception("Cancelled")
       /\ (BeginsCached /\ ev'.key \in raisedKeys)
          => funcCalls' = funcCalls + 1]_vars

\* C7 as amended: when the wrapped function raises, the exception reaches the
\* caller and the raising call leaves the map unchanged; the next call with
\* the same key invokes the wrapped function again unless the map then holds
\* an unexpired entry for the key, which another call has stored meanwhile.
C7_RaiseNotCached ==
    [][/\ (enable_cache /\ ev'.op = "end" /\ calls[ev'.task].cached /\ ev'.kind = "raised")
          => /\ cache' = cache
             /\ ev'.result = Exception("Cancelled")
       /\ (BeginsCached /\ ev'.key \in raisedKeys
           /\ ~ \E e \in Entries(cache) : e.key = ev'.key /\ now < e.expiry)
          => /\ funcCalls' = funcCalls + 1
             /\ ev'.kind = "miss"]_vars

C7_Witness ==
    /\ enable_cache /\ ev.op = "end" /\ ev.kind = "raised" /\ ev.result = Exception("Cancelled")
    /\ ev.key \in raisedKeys
    /\ cache # <<>>
    /\ cache_info.misses >= 2

\* C8: a failed fund-data request leaves no entry in the result cache, and no
\* later call is answered from the cache with the empty or absent result.
C8_FailureNotCached ==
    /\ \A e \in Entries(cache) : e.value # None /\ e.value # EmptyList
    /\ (ev.op = "begin" /\ ev.kind = "hit") => (ev.result # None /\ ev.result # EmptyList)

\* what the wrapped function can hand back on its ver-th invocation
FuncResults(ver) == {WrappedFunc(func, o, ver) : o \in Outcomes}

\* C15: while caching is disabled, a call invokes the wrapped function and
\* hands back what it returned or raised, and neither its beginning nor its
\* end changes the cache map, the hit counter or the miss counter, whether or
\* not the map holds a valid entry for the key.
C15_DisabledCallsThrough ==
    [][/\ (~enable_cache /\ ev'.op = "begin") =>
              /\ ev'.kind = "bypass"
              /\ funcCalls' = funcCalls + 1
              /\ calls'[ev'.task].st = "awaiting"
              /\ ~calls'[ev'.task].cached
              /\ cache' = cache /\ cache_info' = cache_info
       /\ (ev'.op = "end" /\ ~calls[ev'.task].cached) =>
              /\ [raised |-> ev'.kind = "raised", value |-> ev'.result]
                    \in FuncResults(calls[ev'.task].ver)
              /\ cache' = cache /\ cache_info' = cache_info]_vars

\* A call made with caching disabled has returned the function's result while
\* the map held an unexpired entry for its key, stored before the setting was
\* turned off; no hit was ever counted.
C15_Witness ==
    /\ ~enable_cache
    /\ ev.op = "end" /\ ev.kind = "returned"
    /\ CacheLookupHit(cache, ev.key, now)
    /\ cache_info = [hits |-> 0, misses |-> 1]
    /\ funcCalls = 2

\* Another call with the key of the call just begun is awaiting its function.
OverlapsAtBegin ==
    \E u \in Tasks : calls[u].st = "awaiting" /\ calls[u].cached /\ calls[u].key = ev'.key

\* C31: when a call begins while another call with the same key is awaiting
\* the wrapped function and the map holds no valid entry for the key, it is a
\* miss and invokes the wrapped function too; when a call returns a result
\* while the map holds an entry for its key stored since that call began (by
\* an overlapping call, started earlier or later), the entry afterwards holds
\* the result and the expiry (start + ttl) of the call that has just returned.
C31_LastCompletionWins ==
    [][/\ (BeginsCached /\ OverlapsAtBegin
           /\ ~ \E e \in Entries(cache) : e.key = ev'.key /\ now < e.expiry)
          => /\ ev'.kind = "miss"
             /\ cache_info'.misses = cache_info.misses + 1
             /\ cache_info'.hits = cache_info.hits
             /\ funcCalls' = funcCalls + 1
             /\ calls'[ev'.task].st = "awaiting"
       /\ (StoresResult /\ calls[ev'.task].cached
           /\ \E o \in Entries(cache) : o.key = ev'.key /\ o.expiry > calls[ev'.task].now)
          => \A e \in Entries(cache') :
                e.key = ev'.key => /\ e.value = ev'.result
                                   /\ e.expiry = calls[ev'.task].now + ttl]_vars

\* Two calls of get_all_funds overlapped and both were misses; the one that
\* began first (at time 0) returned last, after the other one, begun at time
\* 1, had stored its result: the entry is the first call's, already expired.
C31_Witness ==
    /\ enable_cache /\ func = "get_all_funds"
    /\ ev.op = "end" /\ ev.kind = "returned" /\ ev.result = [status |-> "SUCCESS", ver |-> 1]
    /\ cache_info = [hits |-> 0, misses |-> 2] /\ funcCalls = 2
    /\ \A t \in Tasks : calls[t].st = "idle"
    /\ now = 1
    /\ cache = <<[key |-> ev.key, value |-> ev.result, expiry |-> ttl]>>

\* C32: every entry is stored with expiry = start time of the call that
\* produced it + ttl, however much later that call completes; no step changes
\* or adds an entry other than the one a returning call stores; and a hit
\* returns the value of an entry whose producing call began (at expiry - ttl)
\* less than ttl time units before the hit.
C32_ExpiryFromStart ==
    [][/\ (StoresResult /\ calls[ev'.task].cached)
          => /\ \E e \in Entries(cache') :
                   /\ e.key = ev'.key /\ e.value = ev'.result
                   /\ e.expiry = calls[ev'.task].now + ttl
             /\ \A e \in Entries(cache') : e.key # ev'.key => e \in Entries(cache)
       /\ ~(StoresResult /\ calls[ev'.task].cached)
          => Entries(cache') \subseteq Entries(cache)
       /\ (BeginsCached /\ ev'.kind = "hit")
          => \E e \in Entries(cache) :
                /\ e.key = ev'.key /\ e.value = ev'.result
                /\ now - (e.expiry - ttl) < ttl]_vars

\* A call of get_fund that began at time 0 has returned at time 2: its entry
\* expired at time ttl whereas completion + ttl lies in the future; a hit on
\* another entry was counted on the way.
C32_Witness ==
    /\ enable_cache /\ func = "get_fund"
    /\ ev.op = "end" /\ ev.kind = "returned" /\ ev.result.status = "SUCCESS"
    /\ now = MaxTime
    /\ \E e \in Entries(cache) : e.key = ev.key /\ e.value = ev.result /\ e.expiry = ttl
    /\ cache_info.hits = 1

\* C33: with caching enabled, the start of a call adds one to exactly one of
\* the hit counter and the miss counter, and no other step of the call (its
\* return or its exception) nor the passing of time changes either counter;
\* clearing empties the map and leaves both counters as they were.
C33_CountedOnce ==
    [][enable_cache =>
        /\ ev'.op = "begin"
              => \/ /\ cache_info'.hits = cache_info.hits + 1
                    /\ cache_info'.misses = cache_info.misses
                    /\ funcCalls' = funcCalls
                 \/ /\ cache_info'.misses = cache_info.misses + 1
                    /\ cache_info'.hits = cache_info.hits
                    /\ funcCalls' = funcCalls + 1
        /\ ev'.op # "begin" => cache_info' = cache_info /\ funcCalls' = funcCalls
        /\ ev'.op = "clear" => cache' = <<>>]_vars

\* The map has been cleared after three calls: a miss that stored its result,
\* a hit, and a miss whose function raised; the counters still say so.
C33_Witness ==
    /\ enable_cache
    /\ ev.op = "clear" /\ cache = <<>>
    /\ cache_info = [hits |-> 1, misses |-> 2]
    /\ raisedKeys # {}
    /\ \A t \in Tasks : calls[t].st = "idle"

(***************************************************************************)
(* Properties of the service functions.                                    *)
(***************************************************************************)
\* the places in the listing of the funds whose lowercase name contains every
\* whitespace-separated lowercase term of the query
MatchingPlaces(listing, query) ==
    {i \in 1..Len(listing) :
        \A k \in 1..Len(SplitWS(Lower(query))) :
            Contains(Lower(listing[i].schemeName), SplitWS(Lower(query))[k])}

\* the j-th smallest element of a set of numbers
Nth(S, j) == CHOOSE i \in S : Cardinality({k \in S : k <= i}) = j

Min(a, b) == IF a < b THEN a ELSE b

\* the listing a search call was answered from
ListingSearched == ListingOf(get_all_funds(svc.args.listing, 0).value)

\* C16: search(query, limit) returns, in listing order, exactly the first
\* min(limit, number of matches) matching funds of the listing, for every
\* query and every limit; so never more than limit summaries and never a fund
\* that misses a term.
C16_SearchFirstMatches ==
    (svc.fn = "search_funds" /\ svc.returned) =>
        LET m == MatchingPlaces(ListingSearched, svc.args.query)
            n == Min(svc.args.limit, Cardinality(m))
        IN  /\ Len(svc.result) = n
            /\ Len(svc.result) <= svc.args.limit
            /\ \A j \in 1..Len(svc.result) :
                  svc.result[j].scheme_code = ListingSearched[Nth(m, j)].schemeCode

\* C17: search("hdfc top 100", limit=5) over a listing that holds "HDFC Top
\* 100 Fund-Growth Option" among unrelated names returns that fund alone, with
\* category Equity and fund house HDFC.
C17_HdfcTop100 ==
    (/\ svc.fn = "search_funds" /\ svc.returned
     /\ svc.args = [query |-> SearchQuery.HdfcTop100, limit |-> 5, listing |-> "ok"]) =>
        /\ Len(svc.result) = 1
        /\ svc.result[1].scheme_name = <<"H", "D", "F", "C", " ", "T", "o", "p", " ", "1", "0", "0", " ", "F", "u", "n", "d", "-", "G", "r", "o", "w", "t", "h", " ", "O", "p", "t", "i", "o", "n">>
        /\ svc.result[1].category = <<"E", "q", "u", "i", "t", "y">>
        /\ svc.result[1].fund_house = <<"H", "D", "F", "C">>

\* C18: the returns of the two-point history (21 April 2023, 845.123),
\* (21 April 2022, 800.0) hold a 1Y return of 5.64 and neither a 3Y nor a 5Y
\* entry.
C18_TwoPointReturns ==
    (svc.fn = "_calculate_returns" /\ svc.returned /\ svc.args.nav_data = NavHistory.TwoPoint) =>
        /\ "1Y" \in DOMAIN svc.result
        /\ svc.result["1Y"] = 564
        /\ "3Y" \notin DOMAIN svc.result
        /\ "5Y" \notin DOMAIN svc.result

\* The returns of the two-point history have been computed: 5.64 over the
\* year, and 0.0 over the three shorter periods, for which the latest
\* valuation is itself the closest one.
C18_Witness ==
    /\ svc.fn = "_calculate_returns" /\ svc.returned
    /\ svc.args.nav_data = NavHistory.TwoPoint
    /\ DOMAIN svc.result = {"1M", "3M", "6M", "1Y"}
    /\ svc.result["1Y"] = 564
    /\ svc.result["1M"] = 0

\* _calculate_returns has returned
ReturnsComputed == svc.fn = "_calculate_returns" /\ svc.returned

\* the parsed date of every point: <<ordinal>>, or <<>> for a malformed date
DatesOf(nav_data) == [i \in 1..Len(nav_data) |-> strptime(nav_data[i].date)]

\* the history without its points of malformed date
ValidPoints(nav_data) ==
    LET Valid(entry) == strptime(entry.date) # <<>>
    IN  SelectSeq(nav_data, Valid)

\* C34: for each window, if no point of the history is dated at or before the
\* target date (latest date minus the window), the returns hold no entry for
\* that window.
C34_ShortHistoryOmitted ==
    (ReturnsComputed /\ svc.args.nav_data # <<>>) =>
        LET dates == DatesOf(svc.args.nav_data) IN
        dates[1] # <<>> =>
            \A k \in DOMAIN periods :
                (~ \E i \in DOMAIN dates :
                      dates[i] # <<>> /\ dates[i][1] <= dates[1][1] - periods[k].days)
                => periods[k].key \notin DOMAIN svc.result

\* C35: the returns of a history are the returns of the same history with
\* every point of malformed date removed.
C35_MalformedSkipped ==
    ReturnsComputed => svc.result = _calculate_returns(ValidPoints(svc.args.nav_data))

\* C36: the returns are empty whenever fewer than 2 points of the history
\* have a valid date.
C36_FewValidEmpty ==
    (ReturnsComputed /\ Len(ValidPoints(svc.args.nav_data)) < 2) => DOMAIN svc.result = {}

\* the windows of a history were gone through: it has two points or more and
\* its latest date is well-formed
WindowsScanned ==
    /\ ReturnsComputed
    /\ Len(svc.args.nav_data) >= 2
    /\ strptime(svc.args.nav_data[1].date) # <<>>

\* the places of the points of well-formed date nearest to the target date of
\* window k, earliest first; within reach of the target only, if capped
NearestPlaces(nav_data, k, capped) ==
    LET dates == DatesOf(nav_data)
        Diff(i) == Abs(dates[i][1] - (dates[1][1] - periods[k].days))
        among == {i \in DOMAIN dates :
                    dates[i] # <<>> /\ (capped => Diff(i) < min_diff_days)}
    IN  {i \in among : \A j \in among : Diff(i) < Diff(j) \/ (Diff(i) = Diff(j) /\ i <= j)}

\* window k is reported, from the valuation at one of the places, exactly
\* when there is such a place and its valuation is greater than 0
ReportedFrom(places, k) ==
    LET nav_data == svc.args.nav_data IN
    IF \E i \in places : nav_data[i].nav > 0
    THEN /\ periods[k].key \in DOMAIN svc.result
         /\ \E i \in places :
               svc.result[periods[k].key] =
                   RoundRatio(nav_data[1].nav - nav_data[i].nav, nav_data[i].nav)
    ELSE periods[k].key \notin DOMAIN svc.result

\* C37 as stated: for each window the baseline is the point of the whole
\* history nearest to the target date, the earliest in input order among
\* equally near ones, and the window is reported exactly when that point's
\* value is greater than 0.
C37_Original ==
    WindowsScanned =>
        \A k \in DOMAIN periods :
            ReportedFrom(NearestPlaces(svc.args.nav_data, k, FALSE), k)

\* C37 as amended: for each window the baseline is the nearest to the target
\* date among the points of well-formed date lying less than 365 days from
\* it, the earliest in input order among equally near ones; the window is
\* reported exactly when there is such a point and its value is greater than
\* 0.
C37_NearestBaseline ==
    WindowsScanned =>
        \A k \in DOMAIN periods :
            ReportedFrom(NearestPlaces(svc.args.nav_data, k, TRUE), k)

\* The returns of the history with two points two days either side of the
\* 1M target date: the 1M return is taken from the one listed first (810.0),
\* 4.34, not from the other (820.0).
C37_Witness ==
    /\ ReturnsComputed
    /\ svc.args.nav_data = NavHistory.Tie
    /\ "1M" \in DOMAIN svc.result
    /\ svc.result["1M"] = 434
    /\ "3Y" \notin DOMAIN svc.result

\* the valuation points a returned detail carries, none attached being none
AttachedPoints == IF svc.result[1].nav_data = <<>> THEN <<>> ELSE svc.result[1].nav_data[1]

StageOrder == <<"analyze_query", "search_funds", "fetch_fund_details", "analyze_funds",
                "generate_final_response">>

IsText(v) == \A i \in 1..Len(v) : v[i] \in STRING

\* the generate_response calls made with one of the prompts in ps
Sent(ps) == SelectSeq(llm_calls, LAMBDA c : c.prompt \in ps)

\* C1: process_query never raises: whichever text-generation and fund-data
\* calls fail, when process_query is over all five stages have run to their
\* return and the caller has been handed a text.
C1_NeverRaises ==
    /\ reply.status \in {"none", "running", "returned"}
    /\ pc = "done" => /\ reply.status = "returned"
                      /\ IsText(reply.value)
                      /\ trace = StageOrder

\* The analysis request and the final request both failed, after fund data had
\* been fetched, and the caller got the text left by analyze_funds' handler.
C1_Witness ==
    /\ pc = "done"
    /\ reply = [status |-> "returned", value |-> NodeMsg.TechnicalError]
    /\ state.error = NodeMsg.FundAnalysisFailed \o E_Provider
    /\ Len(Sent({"FINAL_RESPONSE_PROMPT"})) = 1

\* C2: the five stages run once each in the order analyze_query, search_funds,
\* fetch_fund_details, analyze_funds, generate_final_response: the stages that
\* have returned are always a prefix of that order, the stage to run next is
\* the one after the last that returned, and the execution ends only after all
\* five, whatever error or empty result an earlier stage left.
C2_FixedOrder ==
    /\ Len(trace) <= Len(StageOrder)
    /\ trace = SubSeq(StageOrder, 1, Len(trace))
    /\ pc \in Nodes => pc = StageOrder[Len(trace) + 1]
    /\ pc \in {"END", "done"} => trace = StageOrder

\* An execution that ended after the first stage recorded an error and the
\* search found nothing.
C2_Witness ==
    /\ pc = "done"
    /\ trace = StageOrder
    /\ state.error = NodeMsg.QueryAnalysisFailed \o E_Provider
    /\ state.search_results = <<>>
    /\ state.fund_details = <<>>

\* C9: when search_funds ends with zero search results, the text returned is
\* the apology set by analyze_funds, and neither the analysis prompt nor the
\* comparison prompt is sent.
C9_ZeroResultsApology ==
    (pc = "done" /\ trace = StageOrder /\ state.search_results = <<>>)
        => /\ reply.value = NodeMsg.NoFundsResponse
           /\ Sent({"FUND_ANALYSIS_PROMPT", "FUND_COMPARISON_PROMPT"}) = <<>>

\* C10: once analyze_funds has run with a non-empty detail list, exactly one
\* of the analysis and comparison prompts has been sent: the comparison prompt
\* with the first two details if there are at least two details and the query
\* has a comparison keyword, the analysis prompt with the first detail alone
\* otherwise.
C10_PromptChoice ==
    (Len(trace) >= 4 /\ state.fund_details # <<>>)
        => LET sent == Sent({"FUND_ANALYSIS_PROMPT", "FUND_COMPARISON_PROMPT"})
               d == state.fund_details
           IN  /\ Len(sent) = 1
               /\ IF Len(d) >= 2 /\ is_comparison_query(state.query)
                  THEN /\ sent[1].prompt = "FUND_COMPARISON_PROMPT"
                       /\ sent[1].fund_data = <<d[1], d[2]>>
                  ELSE /\ sent[1].prompt = "FUND_ANALYSIS_PROMPT"
                       /\ sent[1].fund_data = <<d[1]>>

\* Two details were fetched for a query written with an upper-case keyword,
\* and the comparison prompt went out with both.
C10_Witness ==
    /\ Len(trace) >= 4
    /\ state.query = Query.Compare
    /\ Len(state.fund_details) = 2
    /\ Sent({"FUND_COMPARISON_PROMPT"}) # <<>>

IsPrefix(a, b) == Len(a) <= Len(b) /\ SubSeq(b, 1, Len(a)) = a

\* C13: the conversation history is append-only: over every step of an
\* execution (every stage, on its success, failure and short-circuit branch)
\* the history before the step is a prefix of the history after it.
C13_HistoryAppendOnly ==
    [][IsPrefix(state.chat_history, state'.chat_history)]_vars

\* An execution that was handed a history has ended after a recorded failure
\* and the empty-detail short-circuit; the caller's turn is still the first.
C13_Witness ==
    /\ pc = "done"
    /\ state.chat_history[1] = HumanMessage(Query.Hello)
    /\ state.error = NodeMsg.QueryAnalysisFailed \o E_Provider
    /\ state.chat_history[Len(state.chat_history)] = AIMessage(NodeMsg.CouldNotCompleteTurn)
    /\ Len(state.chat_history) = 6

\* the final generate_response call was made and failed: the turn appended at
\* line 348
FinalUnavailable ==
    /\ Sent({"FINAL_RESPONSE_PROMPT"}) # <<>>
    /\ state.chat_history[Len(state.chat_history)] = AIMessage(NodeMsg.HeresWhatIFound)

\* C14: when a stage failure has been recorded, the text returned does not
\* contain the error record; when the final text-generation call fails, the
\* text returned is the stored fund-analysis text or a fixed fallback sentence.
C14_NoRawError ==
    pc = "done" =>
        /\ "error" \in state.keys => ~Contains(reply.value, state.error)
        /\ FinalUnavailable =>
              reply.value \in {NodeMsg.CouldNotGenerate}
                              \cup (IF Get(state, "fund_analysis", <<>>) # <<>>
                                    THEN {state.fund_analysis} ELSE {})

\* The first stage recorded a failure, the analysis text was generated all the
\* same, the final call failed, and the analysis text was returned.
C14_Witness ==
    /\ pc = "done"
    /\ state.error = NodeMsg.QueryAnalysisFailed \o E_Provider
    /\ FinalUnavailable
    /\ reply.value = Generated.Analysis

\* C20: once a stage has recorded an error in the pipeline state, no later
\* stage clears that record or replaces it with a different one, so the record
\* generate_final_response reads is that of the first failing stage.
C20_ErrorKept ==
    [][("error" \in state.keys) =>
          ("error" \in state'.keys /\ state'.error = state.error)]_vars

\* the calls of the fund service made by the step just taken
Made == SubSeq(requests', Len(requests) + 1, Len(requests'))

\* the step just taken is search_funds run without fund names, its search
\* terms generated, and no term's search finding a fund
TermsUseless ==
    /\ pc = "search_funds" /\ pc' = "fetch_fund_details"
    /\ Get(state, "fund_names", <<>>) = <<>>
    /\ ~("error" \in state'.keys /\ IsPrefix(NodeMsg.FundSearchFailed, state'.error))
    /\ \A i \in 1..Len(Made) :
          (Made[i].query # state.query \/ Made[i].limit # 10) => Made[i].result = <<>>

\* C21: in search_funds with no extracted fund names, whenever the proposed
\* search terms yield nothing usable (no term is parsed, or every per-term
\* search returns no fund), the raw query is searched with limit 10 and the
\* result of that search becomes the search results.
C21_RawQueryFallback ==
    [][TermsUseless =>
          \E i \in 1..Len(Made) :
              /\ Made[i].fn = "search_funds"
              /\ Made[i].query = state.query /\ Made[i].limit = 10
              /\ state'.search_results = Made[i].result]_vars

\* the generate_response calls made by the step just taken
Asked == SubSeq(llm_calls', Len(llm_calls) + 1, Len(llm_calls'))

\* the step just taken is generate_final_response running to its return
FinalStageRan == pc = "generate_final_response" /\ pc' = Successor("generate_final_response")

\* C22: generate_final_response sets the response to the fixed apology without
\* calling generate_response exactly when an error record is present and the
\* fund-analysis text is absent or empty; in every other case it calls
\* generate_response once.
C22_ApologyShortCircuit ==
    [][FinalStageRan =>
          IF "error" \in state.keys /\ Get(state, "fund_analysis", <<>>) = <<>>
          THEN /\ Asked = <<>>
               /\ state'.response = NodeMsg.CouldNotComplete
          ELSE /\ Len(Asked) = 1
               /\ Asked[1].prompt = "FINAL_RESPONSE_PROMPT"]_vars

\* The final stage has run after a recorded failure with no analysis text: the
\* apology is the response and the final prompt was never sent.
C22_Witness ==
    /\ pc = "END"
    /\ "error" \in state.keys
    /\ "fund_analysis" \notin state.keys
    /\ state.response = NodeMsg.CouldNotComplete
    /\ Sent({"FINAL_RESPONSE_PROMPT"}) = <<>>
    /\ Len(llm_calls) >= 1

\* C23: when the generate_response call of generate_final_response fails, the
\* response is the stored fund-analysis text unchanged if that text is
\* non-empty and the fixed could-not-generate apology otherwise; the stage
\* still returns a state, and it appends one turn to the history.
C23_FinalCallFails ==
    [][(/\ pc = "generate_final_response" /\ pc' # pc
        /\ Asked # <<>> /\ ~Asked[1].answer.ok) =>
          /\ pc' = Successor("generate_final_response")
          /\ state'.response = IF Get(state, "fund_analysis", <<>>) # <<>>
                               THEN state.fund_analysis
                               ELSE NodeMsg.CouldNotGenerate
          /\ IsPrefix(state.chat_history, state'.chat_history)
          /\ Len(state'.chat_history) = Len(state.chat_history) + 1]_vars

\* The final call failed with no analysis text at hand and the could-not-generate
\* apology was returned.
C23_Witness ==
    /\ pc = "done"
    /\ llm_calls # <<>>
    /\ llm_calls[Len(llm_calls)].prompt = "FINAL_RESPONSE_PROMPT"
    /\ ~llm_calls[Len(llm_calls)].answer.ok
    /\ Get(state, "fund_analysis", <<>>) = <<>>
    /\ reply.value = NodeMsg.CouldNotGenerate

\* C24: after fetch_fund_details the detail list holds at most 3 entries; a
\* fetch, with the history included, is issued for each of the first 3 search
\* results in their order and for no other; the detail list holds the details
\* those fetches returned, in that order, a fetch that returned none
\* contributing nothing.
C24_FirstThreeDetails ==
    [][(pc = "fetch_fund_details" /\ pc' = Successor("fetch_fund_details")) =>
          LET search_results == Get(state, "search_results", <<>>)
              fund_details == state'.fund_details
              got == {i \in 1..Len(Made) : Made[i].result # <<>>}
          IN  /\ Len(fund_details) <= 3
              /\ Len(Made) = Min(3, Len(search_results))
              /\ \A i \in 1..Len(Made) :
                    /\ Made[i].fn = "get_fund_details"
                    /\ Made[i].include_nav_data
                    /\ Made[i].scheme_code = search_results[i].scheme_code
              /\ Len(fund_details) = Cardinality(got)
              /\ \A j \in 1..Len(fund_details) :
                    /\ fund_details[j] = Made[Nth(got, j)].result[1]
                    /\ fund_details[j].scheme_code
                          = search_results[Nth(got, j)].scheme_code]_vars

\* Five funds were found, three fetches were made, the second returned no
\* detail, and the details of the first and the third result are kept.
C24_Witness ==
    /\ pc = "analyze_funds"
    /\ Len(state.search_results) = 5
    /\ Len(SelectSeq(requests, LAMBDA c : c.fn = "get_fund_details")) = 3
    /\ Len(state.fund_details) = 2
    /\ state.fund_details[1].scheme_code = state.search_results[1].scheme_code
    /\ state.fund_details[2].scheme_code = state.search_results[3].scheme_code

\* C25: after search_funds no two search results share a scheme code, every
\* scheme code some search of the step found appears exactly once, and the
\* summary kept for a code is the one found last.
C25_UniqueLastSeen ==
    [][(pc = "search_funds" /\ pc' = Successor("search_funds")) =>
          LET search_results == state'.search_results
              hits == UNION {{<<i, k>> : k \in 1..Len(Made[i].result)} :
                                i \in 1..Len(Made)}
              code(h) == Made[h[1]].result[h[2]].scheme_code
              later(g, h) == g[1] > h[1] \/ (g[1] = h[1] /\ g[2] > h[2])
          IN  /\ \A i, j \in 1..Len(search_results) :
                    search_results[i].scheme_code = search_results[j].scheme_code
                        => i = j
              /\ \A j \in 1..Len(search_results) :
                    \E h \in hits : code(h) = search_results[j].scheme_code
              /\ \A h \in hits :
                    \E j \in 1..Len(search_results) :
                        /\ search_results[j].scheme_code = code(h)
                        /\ (\A g \in hits : code(g) = code(h) => ~later(g, h))
                              => search_results[j] = Made[h[1]].result[h[2]]]_vars

\* Two searches found the same scheme under two names; the search results
\* hold the scheme once, in its first place, under the name found last.
C25_Witness ==
    /\ pc = "fetch_fund_details"
    /\ Len(requests) = 2
    /\ requests[1].result # <<>> /\ requests[2].result # <<>>
    /\ requests[1].result[1].scheme_code = requests[2].result[1].scheme_code
    /\ requests[1].result[1] # requests[2].result[1]
    /\ Len(state.search_results) = 3
    /\ state.search_results[1] = requests[2].result[1]

\* C26: when the generate_response call of analyze_query fails, the node
\* records an error, appends exactly the human turn holding the query to the
\* history, sets no fund_names, and the graph goes on to search_funds.
C26_AnalysisCallFails ==
    [][(/\ pc = "analyze_query" /\ pc' # pc
        /\ Asked # <<>> /\ ~Asked[1].answer.ok) =>
          /\ pc' = "search_funds"
          /\ "error" \in state'.keys
          /\ state'.error = NodeMsg.QueryAnalysisFailed \o Asked[1].answer.text
          /\ state'.chat_history
                = Get(state, "chat_history", <<>>) \o <<HumanMessage(state.query)>>
          /\ "fund_names" \notin state'.keys
          /\ "query_analysis" \notin state'.keys]_vars

\* The call of analyze_query failed on a query that came with a history of
\* one turn: search_funds is next, the history has two turns, the last one
\* the human turn, and there are no fund names.
C26_Witness ==
    /\ pc = "search_funds"
    /\ Len(llm_calls) = 1 /\ ~llm_calls[1].answer.ok
    /\ "error" \in state.keys
    /\ "fund_names" \notin state.keys
    /\ Len(state.chat_history) = 2
    /\ state.chat_history[2] = HumanMessage(state.query)

\* C38: the generate_response call of generate_final_response is made with
\* a temperature strictly lower than that of every generate_response call of
\* analyze_query, search_funds and analyze_funds.
C38_FinalTemperatureLower ==
    \A i, j \in 1..Len(llm_calls) :
        (/\ llm_calls[i].prompt = "FINAL_RESPONSE_PROMPT"
         /\ llm_calls[j].prompt # "FINAL_RESPONSE_PROMPT")
        => llm_calls[i].temperature < llm_calls[j].temperature

(***************************************************************************)
(* Properties of the streaming variant.                                    *)
(***************************************************************************)
ProgressFrames == [i \in 1..Len(StageOrder) |-> ChunkFrame(node_messages[StageOrder[i]])]

\* the places of frame f among the frames delivered
Places(f) == {i \in 1..Len(chunks) : chunks[i] = f}

\* C11: in a streamed execution without an uncaught failure the consumer gets
\* the five progress lines in stage order, each delivered before its stage
\* runs, then one response payload, then the sentinel as the last frame, once.
C11_StreamOrder ==
    stream.phase # "off" =>
        /\ \A i \in 1..Len(trace) : Len(chunks) >= i /\ chunks[i] = ProgressFrames[i]
        /\ stream.phase = "run" => /\ Len(chunks) = Len(trace) + 1
                                   /\ chunks[Len(trace) + 1] = ChunkFrame(node_messages[pc])
        /\ ~stream.failed =>
              IF stream.phase = "closed"
              THEN chunks = ProgressFrames \o <<ChunkFrame(state.response), DoneFrame>>
              ELSE Places(DoneFrame) = {}

\* A streamed execution ended without an uncaught failure though its first
\* stage had recorded an error: the payload is the fixed fallback.
C11_Witness ==
    /\ stream.phase = "closed" /\ ~stream.failed
    /\ state.error = NodeMsg.QueryAnalysisFailed \o E_Provider
    /\ Len(chunks) = 7
    /\ chunks[6] = ChunkFrame(NodeMsg.CouldNotComplete)

\* the frames delivered that are neither a progress line nor the sentinel
Payloads ==
    SelectSeq(chunks, LAMBDA f : /\ f # DoneFrame
                                 /\ \A i \in 1..Len(ProgressFrames) : f # ProgressFrames[i])

\* C27: a streamed execution runs the stages process_query runs on the same
\* query, history and outcomes of the external calls, in the same order, and
\* once it has ended without an uncaught failure the one response payload it
\* delivered is the text process_query returns.
C27_StreamMatchesBlocking ==
    (stream.phase # "off" /\ ~stream.failed) =>
        LET Same(blocking) ==
                /\ IsPrefix(trace, blocking.trace)
                /\ stream.phase = "closed" =>
                      /\ trace = blocking.trace
                      /\ Payloads = <<ChunkFrame(blocking.value)>>
        IN  Same(process_query(stream.query, stream.chat_history,
                               [i \in 1..Len(llm_calls) |-> llm_calls[i].answer], requests))

\* A streamed execution on a query with a history ended after two searches
\* and two fetches; its payload is the text generated by the final call.
C27_Witness ==
    /\ stream.phase = "closed" /\ ~stream.failed
    /\ stream.chat_history # <<>>
    /\ Len(requests) = 4
    /\ Len(llm_calls) = 3
    /\ llm_calls[3].answer.ok
    /\ Payloads = <<ChunkFrame(Generated.Final)>>

\* C12: after an uncaught failure while streaming, the fixed error line has
\* been delivered exactly once, nothing but the sentinel follows it, and the
\* stream ends with the sentinel exactly once.
C12_StreamError ==
    stream.failed =>
        /\ Cardinality(Places(ChunkFrame(AgentMsg.StreamError))) = 1
        /\ stream.phase \in {"closing", "closed"}
        /\ stream.phase = "closing" =>
              /\ chunks[Len(chunks)] = ChunkFrame(AgentMsg.StreamError)
              /\ Places(DoneFrame) = {}
        /\ stream.phase = "closed" =>
              /\ chunks[Len(chunks) - 1] = ChunkFrame(AgentMsg.StreamError)
              /\ Places(DoneFrame) = {Len(chunks)}

\* The event source failed while the third stage was running: two stages
\* returned, three progress lines, the error line, the sentinel.
C12_Witness ==
    /\ stream.phase = "closed" /\ stream.failed
    /\ Len(trace) = 2
    /\ Len(chunks) = 5

(***************************************************************************)
(* Properties of concurrent executions.                                    *)
(***************************************************************************)
\* the state dict of execution e as the nodes read it
StateOf(xs, h, e) == Seen(h, e, xs[e].state)

\* the calls execution e has made that are of the kinds ks
Logged(e, ks) == SelectSeq(execs[e].log, LAMBDA c : c.kind \in ks)

\* C28: a step of one execution changes neither the record nor the state dict
\* of another execution, and no step changes the history list the caller
\* handed over, which all the executions were given.
C28_NoSharedState ==
    [][/\ heap'.caller = heap.caller
       /\ \A e \in 1..NumExecs :
             execs'[e] # execs[e] =>
                \A o \in (1..NumExecs) \ {e} :
                   /\ execs'[o] = execs[o]
                   /\ StateOf(execs', heap', o) = StateOf(execs, heap, o)]_vars

\* Both executions, given the same list of one turn, have returned; each
\* went through a node while the other was suspended in the same node; each
\* has a history of its own that begins with the caller's turn, and the
\* caller's list still holds that one turn.
C28_Witness ==
    /\ execs # <<>>
    /\ \A e \in 1..NumExecs :
          /\ execs[e].pc = "done"
          /\ execs[e].state.chat_history = "own"
          /\ Len(heap.own[e]) > 1
          /\ heap.own[e][1] = HumanMessage(Query.Hello)
    /\ heap.caller = <<HumanMessage(Query.Hello)>>
    /\ heap.own[1] # heap.own[2]

\* C29: with the event loop running what can run and the external calls of
\* execution 1 ending, execution 1 returns, whether or not the calls of the
\* other executions ever end and whichever cache keys they are for.
C29_NotHeldUp == <>(execs[1].pc = "done")

\* Execution 1 has returned though it needed a cache key for which the other
\* execution's request was in flight then, and is in flight still.
C29_Witness ==
    /\ execs # <<>>
    /\ execs[1].pc = "done"
    /\ execs[2].pending # <<>>
    /\ execs[2].pending[1].kind = "request"
    /\ \E i \in 1..Len(execs[1].log) :
          /\ execs[1].log[i].key = execs[2].pending[1].key
          /\ execs[1].log[i].kind = "miss"
          /\ execs[1].log[i].flying

\* C30: with every external call ending, every execution returns; an
\* execution makes at most 4 generate_response calls and at most 3
\* get_fund_details calls, and never has more than one external call in
\* flight.
C30_Terminates ==
    /\ [](\A e \in DOMAIN execs :
             /\ Len(Logged(e, {"llm"})) <= 4
             /\ Len(SelectSeq(Logged(e, {"bypass", "hit", "miss"}),
                              LAMBDA c : c.key[1] = "get_fund")) <= 3
             /\ Len(execs[e].pending) <= 1)
    /\ \A e \in 1..NumExecs : <>(execs[e].pc = "done")

\* An execution has returned after 4 generate_response calls and 3
\* get_fund_details calls, one of them answered from the cache.
C30_Witness ==
    /\ execs # <<>>
    /\ \E e \in 1..NumExecs :
          /\ execs[e].pc = "done"
          /\ Len(Logged(e, {"llm"})) = 4
          /\ Len(SelectSeq(Logged(e, {"bypass", "hit", "miss"}),
                           LAMBDA c : c.key[1] = "get_fund")) = 3
          /\ \E i \in 1..Len(execs[e].log) :
                execs[e].log[i].kind = "hit" /\ execs[e].log[i].key[1] = "get_fund"

====
